---------------------------- MODULE Spec2Model ----------------------------
(***************************************************************************)
(* A model of the chat backend of the financial-advisor assistant:         *)
(*   - the Card Protocol Codec (src/src/lib/ai/prompts.ts),                *)
(*   - the Intent Classifier and Context Resolver                          *)
(*     (src/src/lib/ai/parse-intent.ts),                                   *)
(*   - the chat turn (src/src/handlers/chat.ts) with the task store        *)
(*     (src/src/lib/db/tasks.ts) and the LLM client (src/unnamed/part_009). *)
(*                                                                         *)
(* Text is modelled as a sequence of tokens.  A token stands for one       *)
(* character or for one fixed character sequence of the source text:       *)
(*   "<<<CARD:"  the marker opener        ">>>"  the marker terminator     *)
(*   "task", "confirmation", ... "bogus"  a run of [a-z-] characters       *)
(*   "a"  an ordinary letter     " "  a blank     "nl"  a raw newline      *)
(*   "{" "}" "[" "]" "," ":"     the JSON punctuation                      *)
(*   "q"   a double quote        "k:"  the member prefix  "k":             *)
(*   "bq"  the two characters \" (an escaped quote inside a JSON string)   *)
(*   "bn"  the two characters \n (an escaped newline inside a JSON string) *)
(***************************************************************************)
EXTENDS Integers, Sequences, FiniteSets, TLC

VARIABLES
  genText,         \* codec: the generated text handed to the decoder
  cardIn,          \* codec: the card buildCardMarker was called with, or NoCard
  codecPc,         \* codec: "idle", "ready" (an input is set), "decoded", "stripped"
  parsed,          \* codec: the ParsedResponse of parseContent(genText)
  stripped,        \* codec: the result of stripCardMarkers(genText)
  pc,              \* turn: the step of processChat that is next, "idle" between turns
  reqMessage,         \* turn: the message of the request
  reqContext,         \* turn: the context of the request
  intentResult,    \* turn: the IntentClassification of step 1
  resolvedCtx, \* turn: the ResolvedContext of step 2
  dataCtx,     \* turn: the result of gatherDataForIntent, with the calls it made
  actionResult,    \* turn: what step 4 did: calls, tasksUpdated, error
  prompt,          \* turn: the prompt of step 5
  llmResult,       \* turn: the result of callLLM
  llmCalls,        \* turn: the completion requests sent in this turn
  parsedResponse,  \* turn: the ParsedResponse of step 7
  response,        \* turn: the HTTP response of handler, NoResponse while it runs
  tasks,           \* the task records of the Record Store
  tasksBefore,     \* the task records when the turn began
  callerCtx,       \* the context the caller holds and sends with its next request
  focusSeen,       \* the kinds of focus id set in some context of the conversation
  turnNo,          \* the number of requests of the conversation so far
  CARD_PATTERN_lastIndex, \* decoder: lastIndex of the module-level CARD_PATTERN
  inFlight,        \* decoder: the generated text of each turn that is decoding
  lastCall,        \* decoder: the latest decode call, its text and its result
  lastOp,          \* store: the latest task operation, the record before and its result
  opCount,         \* store: the task operations run so far
  decided,         \* store: per task id, the approve/reject calls that succeeded on it
  procs,           \* store: the concurrent review operations and their positions
  batch            \* seeder: the locals of batchWriteWithRetry

codecVars == <<genText, cardIn, codecPc, parsed, stripped>>

turnVars ==
  <<pc, reqMessage, reqContext, intentResult, resolvedCtx, dataCtx, actionResult, prompt,
    llmResult, llmCalls, parsedResponse, response, tasks, tasksBefore, callerCtx, focusSeen,
    turnNo>>

patternVars == <<CARD_PATTERN_lastIndex, inFlight, lastCall>>

opsVars == <<lastOp, opCount, decided>>

extraVars == <<patternVars, opsVars, procs, batch>>

vars == <<codecVars, turnVars, extraVars>>


(***************************************************************************)
(* Sequence helpers with JavaScript's 0-based, end-exclusive indices.      *)
(***************************************************************************)
Slice(s, a, b) == SubSeq(s, a + 1, b)

At(s, i) == s[i + 1]

MinOf(S) == CHOOSE x \in S : \A y \in S : x <= y

RECURSIVE Flatten(_)
Flatten(ss) == IF ss = <<>> THEN <<>> ELSE Head(ss) \o Flatten(Tail(ss))

RECURSIVE JoinWith(_, _)
JoinWith(ss, sep) ==
  IF ss = <<>> THEN <<>>
  ELSE IF Len(ss) = 1 THEN Head(ss)
  ELSE Head(ss) \o sep \o JoinWith(Tail(ss), sep)

(***************************************************************************)
(* String.prototype.trim: blanks and newlines are the whitespace tokens.   *)
(***************************************************************************)
IsSpace(t) == t \in {" ", "nl"}

RECURSIVE TrimLeft(_)
TrimLeft(s) ==
  IF s # <<>> /\ IsSpace(Head(s)) THEN TrimLeft(Tail(s)) ELSE s

RECURSIVE TrimRight(_)
TrimRight(s) ==
  IF s # <<>> /\ IsSpace(s[Len(s)]) THEN TrimRight(SubSeq(s, 1, Len(s) - 1)) ELSE s

Trim(s) == TrimRight(TrimLeft(s))

(***************************************************************************)
(* JSON values: <<"str", chars>>, <<"obj", members>>, <<"arr", elements>>. *)
(* Object keys are all the key "k" (token "k:"); a string's characters are *)
(* tokens, with "dq" a double quote and "nl" a newline.                    *)
(***************************************************************************)
Str(cs) == <<"str", cs>>

Obj(ms) == <<"obj", ms>>

Arr(es) == <<"arr", es>>

JsonNull == <<"null", <<>>>>

SyntaxError == <<"SyntaxError", <<>>>>

(* JSON.stringify of one string character *)
EscapeChar(c) ==
  IF c = "dq" THEN "bq" ELSE IF c = "nl" THEN "bn" ELSE c

(* JSON.parse of one token inside a string literal *)
UnescapeChar(t) ==
  IF t = "bq" THEN "dq" ELSE IF t = "bn" THEN "nl" ELSE t

RECURSIVE JSONstringify(_)
JSONstringify(v) ==
  CASE v[1] = "str" ->
         <<"q">> \o [i \in 1..Len(v[2]) |-> EscapeChar(v[2][i])] \o <<"q">>
    [] v[1] = "obj" ->
         <<"{">>
         \o JoinWith([i \in 1..Len(v[2]) |-> <<"k:">> \o JSONstringify(v[2][i])], <<",">>)
         \o <<"}">>
    [] v[1] = "arr" ->
         <<"[">>
         \o JoinWith([i \in 1..Len(v[2]) |-> JSONstringify(v[2][i])], <<",">>)
         \o <<"]">>
    [] OTHER -> <<"null">>


(***************************************************************************)
(* JSON.parse on a token sequence: a recursive-descent parser of the JSON  *)
(* grammar restricted to strings, objects and arrays.  Positions are       *)
(* 1-based; a result is [ok, v, n] with n the position after the value.    *)
(***************************************************************************)
ParseFail == [ok |-> FALSE, v |-> JsonNull, n |-> 0]

RECURSIVE SkipWs(_, _)
SkipWs(ts, i) ==
  IF i <= Len(ts) /\ IsSpace(ts[i]) THEN SkipWs(ts, i + 1) ELSE i

RECURSIVE ParseString(_, _, _)
ParseString(ts, i, acc) ==
  IF i > Len(ts) THEN ParseFail
  ELSE IF ts[i] = "q" THEN [ok |-> TRUE, v |-> Str(acc), n |-> i + 1]
  ELSE IF ts[i] \in {"nl", "k:"} THEN ParseFail
  ELSE ParseString(ts, i + 1, Append(acc, UnescapeChar(ts[i])))

RECURSIVE ParseValue(_, _)
RECURSIVE ParseMembers(_, _, _)
RECURSIVE ParseElements(_, _, _)

ParseValue(ts, i) ==
  IF i > Len(ts) THEN ParseFail
  ELSE IF ts[i] = "q" THEN ParseString(ts, i + 1, <<>>)
  ELSE IF ts[i] = "{" THEN
    LET j == SkipWs(ts, i + 1) IN
      IF j <= Len(ts) /\ ts[j] = "}"
      THEN [ok |-> TRUE, v |-> Obj(<<>>), n |-> j + 1]
      ELSE ParseMembers(ts, j, <<>>)
  ELSE IF ts[i] = "[" THEN
    LET j == SkipWs(ts, i + 1) IN
      IF j <= Len(ts) /\ ts[j] = "]"
      THEN [ok |-> TRUE, v |-> Arr(<<>>), n |-> j + 1]
      ELSE ParseElements(ts, j, <<>>)
  ELSE ParseFail

ParseMembers(ts, i, acc) ==
  IF i > Len(ts) \/ ts[i] # "k:" THEN ParseFail
  ELSE
    LET r == ParseValue(ts, SkipWs(ts, i + 1)) IN
      IF ~r.ok THEN ParseFail
      ELSE
        LET j == SkipWs(ts, r.n) IN
          IF j > Len(ts) THEN ParseFail
          ELSE IF ts[j] = "}"
            THEN [ok |-> TRUE, v |-> Obj(Append(acc, r.v)), n |-> j + 1]
          ELSE IF ts[j] = ","
            THEN ParseMembers(ts, SkipWs(ts, j + 1), Append(acc, r.v))
          ELSE ParseFail

ParseElements(ts, i, acc) ==
  LET r == ParseValue(ts, i) IN
    IF ~r.ok THEN ParseFail
    ELSE
      LET j == SkipWs(ts, r.n) IN
        IF j > Len(ts) THEN ParseFail
        ELSE IF ts[j] = "]"
          THEN [ok |-> TRUE, v |-> Arr(Append(acc, r.v)), n |-> j + 1]
        ELSE IF ts[j] = ","
          THEN ParseElements(ts, SkipWs(ts, j + 1), Append(acc, r.v))
        ELSE ParseFail

(* JSON.parse: the value, or SyntaxError for the exception it throws *)
JSONparse(ts) ==
  LET r == ParseValue(ts, SkipWs(ts, 1)) IN
    IF r.ok /\ SkipWs(ts, r.n) > Len(ts) THEN r.v ELSE SyntaxError


(***************************************************************************)
(* The Card Protocol Codec.                                                *)
(***************************************************************************)
validTypes ==
  {"task-list", "task", "client", "client-list",
   "policy", "policy-list", "review", "confirmation"}

(* a token the character class [a-z-] accepts *)
IsTypeChar(t) == t \in validTypes \cup {"bogus", "a"}

(* buildCardMarker: `<<<CARD:${type}:${JSON.stringify(data)}>>>` *)
buildCardMarker(type, data) ==
  <<"<<<CARD:", type, ":">> \o JSONstringify(data) \o <<">>>">>

(* extractJson: the scan with a brace depth counter; the loop state is     *)
(* (i, depth, start), 0-based as in the source; "" is the empty sequence.  *)
RECURSIVE extractJsonLoop(_, _, _, _)
extractJsonLoop(str, i, depth, start) ==
  IF i >= Len(str) THEN <<>>
  ELSE IF At(str, i) = "{" THEN
    extractJsonLoop(str, i + 1, depth + 1, IF depth = 0 THEN i ELSE start)
  ELSE IF At(str, i) = "}" THEN
    IF depth - 1 = 0 /\ start # -1
    THEN Slice(str, start, i + 1)
    ELSE extractJsonLoop(str, i + 1, depth - 1, start)
  ELSE extractJsonLoop(str, i + 1, depth, start)

extractJson(str) == extractJsonLoop(str, 0, 0, -1)

NoCard == [type |-> "none", data |-> JsonNull]

(* the exception of JSON.parse, as the outcome of a try block *)
Thrown == [type |-> "throw", data |-> JsonNull]

(* what the try block of parseCardMarker evaluates to: a Card, NoCard for  *)
(* `return null`, or Thrown when JSON.parse throws                         *)
parseCardMarkerTry(cardType, jsonStr) ==
  LET jsonContent == IF extractJson(jsonStr) # <<>> THEN extractJson(jsonStr) ELSE jsonStr
      data == JSONparse(jsonContent)
  IN  IF data = SyntaxError THEN Thrown
      ELSE IF ~(Len(cardType) = 1 /\ cardType[1] \in validTypes) THEN NoCard
      ELSE [type |-> cardType[1], data |-> data]

(* parseCardMarker without its try/catch: the exception escapes *)
parseCardMarker_NoCatch(cardType, jsonStr) == parseCardMarkerTry(cardType, jsonStr)

(* parseCardMarker: the catch block turns the exception into null *)
parseCardMarker(cardType, jsonStr) ==
  LET r == parseCardMarkerTry(cardType, jsonStr) IN
    IF r = Thrown THEN NoCard ELSE r

(***************************************************************************)
(* CARD_PATTERN = /<<<CARD:([a-z-]+):([\s\S]*?)>>>/g                       *)
(* TypeEnd: the end of the greedy run [a-z-]+ that starts at j.            *)
(***************************************************************************)
RECURSIVE TypeEnd(_, _)
TypeEnd(content, j) ==
  IF j < Len(content) /\ IsTypeChar(At(content, j)) THEN TypeEnd(content, j + 1) ELSE j

(* positions of ">>>" at or after c *)
Closers(content, c) == {e \in c..(Len(content) - 1) : At(content, e) = ">>>"}

(* whether the pattern matches with its first character at i *)
MatchesAt(content, i) ==
  /\ i < Len(content)
  /\ At(content, i) = "<<<CARD:"
  /\ LET k == TypeEnd(content, i + 1) IN
       /\ k > i + 1
       /\ k < Len(content)
       /\ At(content, k) = ":"
       /\ Closers(content, k + 1) # {}

NoMatch == [found |-> FALSE, index |-> 0, end |-> 0, cardType |-> <<>>, jsonStr |-> <<>>]

(* CARD_PATTERN.exec(content) with CARD_PATTERN.lastIndex = from: the      *)
(* leftmost match at or after from, its payload ending at the first ">>>"  *)
CARD_PATTERN_exec(content, from) ==
  LET starts == {i \in from..(Len(content) - 1) : MatchesAt(content, i)} IN
    IF starts = {} THEN NoMatch
    ELSE
      LET i == MinOf(starts)
          k == TypeEnd(content, i + 1)
          e == MinOf(Closers(content, k + 1))
      IN  [found |-> TRUE, index |-> i, end |-> e + 1,
           cardType |-> Slice(content, i + 1, k),
           jsonStr |-> Slice(content, k + 1, e)]

TextSegment(text) == [type |-> "text", content |-> text, card |-> NoCard]

CardSegment(fullMatch, card) == [type |-> "card", content |-> fullMatch, card |-> card]

(* the text between lastIndex and upTo as zero or one text segment *)
TextBefore(content, lastIndex, upTo) ==
  IF upTo > lastIndex /\ Trim(Slice(content, lastIndex, upTo)) # <<>>
  THEN <<TextSegment(Trim(Slice(content, lastIndex, upTo)))>>
  ELSE <<>>

(* parseContentLoop pushing a card before the text that precedes it *)
RECURSIVE parseContentLoop_CardFirst(_, _, _, _)
parseContentLoop_CardFirst(content, lastIndex, segments, cards) ==
  LET match == CARD_PATTERN_exec(content, lastIndex) IN
    IF ~match.found
    THEN [segments |-> segments \o TextBefore(content, lastIndex, Len(content)),
          cards |-> cards, threw |-> FALSE]
    ELSE
      LET card == parseCardMarker(match.cardType, match.jsonStr)
          fullMatch == Slice(content, match.index, match.end)
      IN  parseContentLoop_CardFirst(content, match.end,
            segments
            \o (IF card # NoCard THEN <<CardSegment(fullMatch, card)>> ELSE <<>>)
            \o TextBefore(content, lastIndex, match.index),
            IF card # NoCard THEN Append(cards, card) ELSE cards)

(* the while loop of parseContent, then the text after the last marker;    *)
(* the regex's lastIndex is the end of the previous match.  An exception   *)
(* that leaves parseCardMarker would leave parseContent too (threw).       *)
RECURSIVE parseContentLoop(_, _, _, _)
parseContentLoop(content, lastIndex, segments, cards) ==
  LET match == CARD_PATTERN_exec(content, lastIndex) IN
    IF ~match.found
    THEN [segments |-> segments \o TextBefore(content, lastIndex, Len(content)),
          cards |-> cards, threw |-> FALSE]
    ELSE
      LET card == parseCardMarker(match.cardType, match.jsonStr)
          fullMatch == Slice(content, match.index, match.end)
      IN  IF card = Thrown
          THEN [segments |-> segments, cards |-> cards, threw |-> TRUE]
          ELSE parseContentLoop(content, match.end,
                 segments
                 \o TextBefore(content, lastIndex, match.index)
                 \o (IF card # NoCard THEN <<CardSegment(fullMatch, card)>> ELSE <<>>),
                 IF card # NoCard THEN Append(cards, card) ELSE cards)

IsText(seg) == seg.type = "text"

IsCard(seg) == seg.type = "card"

(* parseContent: segments, cards and plainText *)
parseContent(content) ==
  LET r == parseContentLoop(content, 0, <<>>, <<>>)
      textSegs == SelectSeq(r.segments, IsText)
  IN  [segments |-> r.segments,
       cards |-> r.cards,
       plainText |-> Trim(JoinWith([i \in 1..Len(textSegs) |-> textSegs[i].content],
                                   <<"nl", "nl">>)),
       threw |-> r.threw]

(* content.replace(CARD_PATTERN, ''): every match removed, left to right *)
RECURSIVE RemoveMarkers(_, _)
RemoveMarkers(content, from) ==
  LET match == CARD_PATTERN_exec(content, from) IN
    IF ~match.found THEN Slice(content, from, Len(content))
    ELSE Slice(content, from, match.index) \o RemoveMarkers(content, match.end)

(* .replace(/\n{3,}/g, '\n\n'); run is the number of newlines just passed *)
RECURSIVE CollapseNewlines(_, _)
CollapseNewlines(s, run) ==
  IF s = <<>> THEN <<>>
  ELSE IF Head(s) = "nl"
    THEN (IF run >= 2 THEN <<>> ELSE <<"nl">>) \o CollapseNewlines(Tail(s), run + 1)
    ELSE <<Head(s)>> \o CollapseNewlines(Tail(s), 0)

(* stripCardMarkers *)
stripCardMarkers(content) == Trim(CollapseNewlines(RemoveMarkers(content, 0), 0))

(***************************************************************************)
(* The Intent Classifier and Context Resolver (parse-intent.ts).           *)
(*                                                                         *)
(* A message is a sequence of lowercase words of Vocabulary (separated by  *)
(* single blanks in the source text), possibly with " " tokens in front    *)
(* and behind.  A regular expression of the source is a sequence of        *)
(* word-level nodes, obtained from its text by tools/gen_catalog.py, which *)
(* also compares the two on every message of up to three words:            *)
(*   W(S)        one word, a member of S: the words of Vocabulary that the *)
(*               fragment matches in its position (a fragment at an open   *)
(*               end of the pattern matches inside a word) and the words   *)
(*               the fragment spells out                                   *)
(*   Opt(p)      (?:p)?          Alt(<<p, q>>)  (?:p|q)                    *)
(*   Gap         .* or .*?       Bos  ^         Eos  $                     *)
(*   NotNext(S)  \s+(?!...): a next word that is not in S                  *)
(***************************************************************************)
W(S) == [k |-> "w", ws |-> S, subs |-> <<>>]

NotNext(S) == [k |-> "nla", ws |-> S, subs |-> <<>>]

Opt(items) == [k |-> "opt", ws |-> {}, subs |-> <<items>>]

Alt(alts) == [k |-> "alt", ws |-> {}, subs |-> alts]

Gap == [k |-> "gap", ws |-> {}, subs |-> <<>>]

Bos == [k |-> "bos", ws |-> {}, subs |-> <<>>]

Eos == [k |-> "eos", ws |-> {}, subs |-> <<>>]

(* The positions (0..Len(msg), between words) at which a node, started at  *)
(* a position of P, can end.                                               *)
RECURSIVE NodeEnds(_, _, _)
RECURSIVE SeqEnds(_, _, _)

NodeEnds(n, msg, P) ==
  CASE n.k = "w"   -> {p + 1 : p \in {q \in P : q < Len(msg) /\ msg[q + 1] \in n.ws}}
    [] n.k = "nla" -> {p \in P : p < Len(msg) /\ msg[p + 1] \notin n.ws}
    [] n.k = "opt" -> P \cup SeqEnds(n.subs[1], msg, P)
    [] n.k = "alt" -> UNION {SeqEnds(n.subs[a], msg, P) : a \in DOMAIN n.subs}
    [] n.k = "gap" -> {q \in 0..Len(msg) : \E p \in P : p <= q}
    [] n.k = "bos" -> P \cap {0}
    [] n.k = "eos" -> P \cap {Len(msg)}

SeqEnds(items, msg, P) ==
  IF Len(items) = 0 THEN P
  ELSE SeqEnds(Tail(items), msg, NodeEnds(Head(items), msg, P))

(* RegExp.prototype.test of a pattern without the g flag: a match anywhere *)
RegExpTest(pattern, msg) == SeqEnds(pattern, msg, 0..Len(msg)) # {}

(* the words of a text, without the blanks around them *)
Words(text) == SelectSeq(text, LAMBDA t : ~IsSpace(t))

Undef == "undefined"

(* The words of the model's messages (lowercase: every pattern is /i). *)
Vocabulary == {"show", "me", "my", "tasks", "task", "for", "today", "approve", "it", "that",
    "this", "looks", "good", "not", "yes", "create", "a", "compliance", "check", "dylan",
    "jackson's", "info", "overdue", "week", "the", "client", "policy", "tell", "about", "late",
    "reject", "mark", "done", "hello", "pending", "reviews", "clients", "expiring", "policies",
    "thanks", "jackson"}

INTENT_PATTERNS ==
  <<
    [intent |-> "show_todays_tasks",
     patterns |-> <<
       \* 23: /what.*(?:do i have|tasks?).*today/i
       <<W({"what"}), Gap, Alt(<<<<W({"do"}), W({"i"}), W({"have"})>>, <<W({"task", "tasks"
         })>>>>), Gap, W({"today"})>>,
       \* 24: /today'?s?\s*tasks?/i
       <<W({"today", "today'", "today's", "todays"}), W({"task", "tasks"})>>,
       \* 25: /tasks?\s*for\s*today/i
       <<W({"task", "tasks"}), W({"for"}), W({"today"})>>,
       \* 26: /what'?s?\s*on\s*(?:my|the)?\s*(?:agenda|schedule|plate)\s*(?:today)?/i
       <<W({"what", "what'", "what's", "whats"}), W({"on"}), Opt(<<W({"my", "the"})>>), W({
         "agenda", "plate", "schedule"}), Opt(<<W({"today"})>>)>>,
       \* 27: /show\s*(?:me\s*)?(?:my\s*)?today'?s?\s*tasks?/i
       <<W({"show"}), Opt(<<W({"me"})>>), Opt(<<W({"my"})>>), W({"today", "today'", "today's",
         "todays"}), W({"task", "tasks"})>>,
       \* 28: /what\s*(?:do\s*)?i\s*need\s*to\s*do\s*today/i
       <<W({"what"}), Opt(<<W({"do"})>>), W({"i"}), W({"need"}), W({"to"}), W({"do"}), W({
         "today"})>>>>],
    [intent |-> "show_all_tasks",
     patterns |-> <<
       \* 34: /show\s*(?:me\s*)?(?:all\s*)?(?:my\s*)?tasks?/i
       <<W({"show"}), Opt(<<W({"me"})>>), Opt(<<W({"all"})>>), Opt(<<W({"my"})>>), W({"task",
         "tasks"})>>,
       \* 35: /list\s*(?:all\s*)?(?:my\s*)?tasks?/i
       <<W({"list"}), Opt(<<W({"all"})>>), Opt(<<W({"my"})>>), W({"task", "tasks"})>>,
       \* 36: /what\s*tasks?\s*(?:do\s*)?i\s*have/i
       <<W({"what"}), W({"task", "tasks"}), Opt(<<W({"do"})>>), W({"i"}), W({"have"})>>,
       \* 37: /all\s*(?:my\s*)?tasks?/i
       <<W({"all"}), Opt(<<W({"my"})>>), W({"task", "tasks"})>>>>],
    [intent |-> "show_task_status",
     patterns |-> <<
       \* 43: /(?:what'?s?\s*the\s*)?status\s*(?:of|on)\s*/i
       <<Opt(<<W({"what", "what'", "what's", "whats"}), W({"the"})>>), W({"status"}), W({"of",
         "on"})>>,
       \* 44: /update\s*(?:me\s*)?on\s*/i
       <<W({"update"}), Opt(<<W({"me"})>>), W({"on"})>>,
       \* 45: /how'?s?\s*(?:the|that)\s*/i
       <<W({"how", "how'", "how's", "hows", "show"}), W({"that", "the"})>>,
       \* 46: /where\s*(?:are\s*we|do\s*we\s*stand)\s*(?:on|with)/i
       <<W({"where"}), Alt(<<<<W({"are"}), W({"we"})>>, <<W({"do"}), W({"we"}), W({"stand"
         })>>>>), W({"on", "with"})>>>>],
    [intent |-> "show_pending_reviews",
     patterns |-> <<
       \* 52: /what\s*(?:needs?|requires?)\s*(?:my\s*)?(?:approval|review)/i
       <<W({"what"}), W({"need", "needs", "require", "requires"}), Opt(<<W({"my"})>>), W({
         "approval", "review", "reviews"})>>,
       \* 53: /pending\s*(?:reviews?|approvals?)/i
       <<W({"pending"}), W({"approval", "approvals", "review", "reviews"})>>,
       \* 54: /(?:show|list)\s*(?:me\s*)?(?:pending\s*)?reviews?/i
       <<W({"list", "show"}), Opt(<<W({"me"})>>), Opt(<<W({"pending"})>>), W({"review",
         "reviews"})>>,
       \* 55: /anything\s*(?:to|for\s*me\s*to)\s*(?:review|approve)/i
       <<W({"anything"}), Alt(<<<<W({"to"})>>, <<W({"for"}), W({"me"}), W({"to"})>>>>), W({
         "approve", "review", "reviews"})>>,
       \* 56: /ai\s*(?:completed|generated)\s*(?:work|tasks?)/i
       <<W({"ai"}), W({"completed", "generated"}), W({"task", "tasks", "work"})>>>>],
    [intent |-> "approve_task",
     patterns |-> <<
       \* 62: /^approve(?:\s*(?:it|that|this))?$/i
       <<Bos, W({"approve"}), Opt(<<W({"it", "that", "this"})>>), Eos>>,
       \* 63: /looks?\s*good/i
       <<W({"look", "looks"}), W({"good"})>>,
       \* 64: /(?:go\s*ahead|send\s*it|ship\s*it)/i
       <<Alt(<<<<W({"go"}), W({"ahead"})>>, <<W({"send"}), W({"it"})>>, <<W({"ship"}), W({"it"
         })>>>>)>>,
       \* 65: /approve\s*(?:the|this|that)?\s*(?:task|email|draft|work)?/i
       <<W({"approve"}), Opt(<<W({"that", "the", "this"})>>), Opt(<<W({"draft", "email", "task",
         "work"})>>)>>,
       \* 66: /^(?:yes|yep|yeah|lgtm|ok|okay)$/i
       <<Bos, W({"lgtm", "ok", "okay", "yeah", "yep", "yes"}), Eos>>,
       \* 67: /that'?s?\s*(?:good|great|perfect|fine)/i
       <<W({"that", "that'", "that's", "thats"}), W({"fine", "good", "great", "perfect"})>>>>],
    [intent |-> "reject_task",
     patterns |-> <<
       \* 73: /(?:don'?t|do\s*not)\s*(?:send|approve|submit)/i
       <<Alt(<<<<W({"don't", "dont"})>>, <<W({"do"}), W({"not"})>>>>), W({"approve", "send",
         "submit"})>>,
       \* 74: /reject(?:\s*(?:it|that|this))?/i
       <<W({"reject"}), Opt(<<W({"it", "that", "this"})>>)>>,
       \* 75: /needs?\s*(?:changes?|work|revision)/i
       <<W({"need", "needs"}), W({"change", "changes", "revision", "work"})>>,
       \* 76: /not\s*(?:quite|ready|good)/i
       <<W({"not"}), W({"good", "quite", "ready"})>>,
       \* 77: /(?:revise|redo|change)\s*(?:it|this|that)?/i
       <<W({"change", "redo", "revise"}), Opt(<<W({"it", "that", "this"})>>)>>,
       \* 78: /^no$/i
       <<Bos, W({"no"}), Eos>>>>],
    [intent |-> "complete_task",
     patterns |-> <<
       \* 84: /mark\s*(?:(?:it|that|this)\s*)?(?:as\s*)?(?:done|complete|finished)/i
       <<W({"mark"}), Opt(<<W({"it", "that", "this"})>>), Opt(<<W({"as"})>>), W({"complete",
         "done", "finished"})>>,
       \* 85: /complete\s*(?:the|that|this)?\s*task/i
       <<W({"complete"}), Opt(<<W({"that", "the", "this"})>>), W({"task", "tasks"})>>,
       \* 86: /(?:i'?ve?|i\s*have)\s*(?:done|finished|completed)/i
       <<Alt(<<<<W({"i'v", "i've", "iv", "ive"})>>, <<W({"i"}), W({"have"})>>>>), W({
         "completed", "done", "finished"})>>,
       \* 87: /task\s*(?:is\s*)?(?:done|complete)/i
       <<W({"task"}), Opt(<<W({"is"})>>), W({"complete", "done"})>>>>],
    [intent |-> "show_overdue_tasks",
     patterns |-> <<
       \* 94: /overdue\s*tasks?/i
       <<W({"overdue"}), W({"task", "tasks"})>>,
       \* 95: /past\s*due\s*tasks?/i
       <<W({"past"}), W({"due"}), W({"task", "tasks"})>>,
       \* 96: /late\s*tasks?/i
       <<W({"late"}), W({"task", "tasks"})>>,
       \* 97: /what'?s?\s*(?:past\s*due|overdue|late)/i
       <<W({"what", "what'", "what's", "whats"}), Alt(<<<<W({"past"}), W({"due"})>>, <<W({
         "overdue"})>>, <<W({"late"})>>>>)>>>>],
    [intent |-> "show_high_priority_tasks",
     patterns |-> <<
       \* 103: /(?:high|urgent)\s*priority\s*tasks?/i
       <<W({"high", "urgent"}), W({"priority"}), W({"task", "tasks"})>>,
       \* 104: /critical\s*tasks?/i
       <<W({"critical"}), W({"task", "tasks"})>>,
       \* 105: /important\s*tasks?/i
       <<W({"important"}), W({"task", "tasks"})>>,
       \* 106: /urgent\s*(?:items?|things?|tasks?)/i
       <<W({"urgent"}), W({"item", "items", "task", "tasks", "thing", "things"})>>>>],
    [intent |-> "show_tasks_this_week",
     patterns |-> <<
       \* 112: /tasks?\s*(?:for\s*)?this\s*week/i
       <<W({"task", "tasks"}), Opt(<<W({"for"})>>), W({"this"}), W({"week"})>>,
       \* 113: /this\s*week'?s?\s*tasks?/i
       <<W({"this"}), W({"week", "week'", "week's", "weeks"}), W({"task", "tasks"})>>,
       \* 114: /weekly\s*tasks?/i
       <<W({"weekly"}), W({"task", "tasks"})>>>>],
    [intent |-> "show_tasks_this_month",
     patterns |-> <<
       \* 120: /tasks?\s*(?:for\s*)?this\s*month/i
       <<W({"task", "tasks"}), Opt(<<W({"for"})>>), W({"this"}), W({"month"})>>,
       \* 121: /this\s*month'?s?\s*tasks?/i
       <<W({"this"}), W({"month", "month'", "month's", "months"}), W({"task", "tasks"})>>,
       \* 122: /monthly\s*tasks?/i
       <<W({"monthly"}), W({"task", "tasks"})>>>>],
    [intent |-> "show_in_progress_tasks",
     patterns |-> <<
       \* 128: /(?:tasks?\s*)?in\s*progress/i
       <<Opt(<<W({"task", "tasks"})>>), W({"in"}), W({"progress"})>>,
       \* 129: /what\s*am\s*i\s*working\s*on/i
       <<W({"what"}), W({"am"}), W({"i"}), W({"working"}), W({"on"})>>,
       \* 130: /current\s*tasks?/i
       <<W({"current"}), W({"task", "tasks"})>>>>],
    [intent |-> "show_completed_tasks",
     patterns |-> <<
       \* 136: /completed\s*tasks?/i
       <<W({"completed"}), W({"task", "tasks"})>>,
       \* 137: /finished\s*tasks?/i
       <<W({"finished"}), W({"task", "tasks"})>>,
       \* 138: /done\s*tasks?/i
       <<W({"done"}), W({"task", "tasks"})>>,
       \* 139: /what\s*(?:did\s*i|have\s*i)\s*(?:finish|complete)/i
       <<W({"what"}), Alt(<<<<W({"did"}), W({"i"})>>, <<W({"have"}), W({"i"})>>>>), W({
         "complete", "finish"})>>>>],
    [intent |-> "show_client_info",
     patterns |-> <<
       \* 146: /tell\s*me\s*about\s*/i
       <<W({"tell"}), W({"me"}), W({"about"})>>,
       \* 147: /(?:show|get)\s*(?:me\s*)?(?:info(?:rmation)?\s*(?:on|about|for))/i
       <<W({"get", "show"}), Opt(<<W({"me"})>>), W({"info", "information"}), W({"about", "for",
         "on"})>>,
       \* 148: /who\s*is\s*/i
       <<W({"who"}), W({"is"})>>,
       \* 149: /(?:client|customer)\s*(?:details?|info(?:rmation)?|profile)/i
       <<W({"client", "customer"}), W({"detail", "details", "info", "information", "profile"
         })>>,
       \* 150: /look\s*up\s*/i
       <<W({"look"}), W({"up"})>>>>],
    [intent |-> "show_client_list",
     patterns |-> <<
       \* 156: /(?:show|list)\s*(?:me\s*)?(?:all\s*)?(?:my\s*)?clients?/i
       <<W({"list", "show"}), Opt(<<W({"me"})>>), Opt(<<W({"all"})>>), Opt(<<W({"my"})>>), W({
         "client", "clients"})>>,
       \* 157: /who\s*are\s*my\s*clients?/i
       <<W({"who"}), W({"are"}), W({"my"}), W({"client", "clients"})>>,
       \* 158: /client\s*list/i
       <<W({"client"}), W({"list"})>>>>],
    [intent |-> "show_client_policies",
     patterns |-> <<
       \* 164: /(?:what|show)\s*(?:are\s*)?(?:.*?)?\s*policies?\s*(?:does|for)/i
       <<W({"show", "what"}), Opt(<<W({"are"})>>), Opt(<<Gap>>), W({"policie", "policies"}), W({
         "does", "for"})>>,
       \* 165: /policies?\s*for\s*/i
       <<W({"policie", "policies"}), W({"for"})>>,
       \* 166: /(?:his|her|their)\s*policies?/i
       <<W({"her", "his", "their", "this"}), W({"policie", "policies"})>>>>],
    [intent |-> "show_recent_clients",
     patterns |-> <<
       \* 173: /recent\s*(?:clients?|customers?)/i
       <<W({"recent"}), W({"client", "clients", "customer", "customers"})>>,
       \* 174: /(?:new|latest)\s*(?:clients?|customers?)/i
       <<W({"latest", "new"}), W({"client", "clients", "customer", "customers"})>>,
       \* 175: /(?:clients?|customers?)\s*(?:added|created)\s*recently/i
       <<W({"client", "clients", "customer", "customers"}), W({"added", "created"}), W({
         "recently"})>>,
       \* 176: /most\s*recent\s*(?:clients?|customers?)/i
       <<W({"most"}), W({"recent"}), W({"client", "clients", "customer", "customers"})>>>>],
    [intent |-> "show_high_net_worth_clients",
     patterns |-> <<
       \* 182: /(?:high\s*net\s*worth|hnw|vip)\s*(?:clients?|customers?)/i
       <<Alt(<<<<W({"high"}), W({"net"}), W({"worth"})>>, <<W({"hnw"})>>, <<W({"vip"})>>>>), W({
         "client", "clients", "customer", "customers"})>>,
       \* 183: /wealthy\s*(?:clients?|customers?)/i
       <<W({"wealthy"}), W({"client", "clients", "customer", "customers"})>>,
       \* 184: /top\s*(?:clients?|customers?)/i
       <<W({"top"}), W({"client", "clients", "customer", "customers"})>>>>],
    [intent |-> "show_active_clients",
     patterns |-> <<
       \* 190: /active\s*(?:clients?|customers?)/i
       <<W({"active"}), W({"client", "clients", "customer", "customers"})>>,
       \* 191: /(?:clients?|customers?)\s*i'?m?\s*working\s*with/i
       <<W({"client", "clients", "customer", "customers"}), W({"i", "i'", "i'm", "im"}), W({
         "working"}), W({"with"})>>>>],
    [intent |-> "show_inactive_clients",
     patterns |-> <<
       \* 197: /inactive\s*(?:clients?|customers?)/i
       <<W({"inactive"}), W({"client", "clients", "customer", "customers"})>>,
       \* 198: /dormant\s*(?:clients?|customers?)/i
       <<W({"dormant"}), W({"client", "clients", "customer", "customers"})>>>>],
    [intent |-> "show_prospect_clients",
     patterns |-> <<
       \* 204: /prospect\s*(?:clients?|customers?)?/i
       <<W({"prospect"}), Opt(<<W({"client", "clients", "customer", "customers"})>>)>>,
       \* 205: /potential\s*(?:clients?|customers?)/i
       <<W({"potential"}), W({"client", "clients", "customer", "customers"})>>,
       \* 206: /leads?/i
       <<W({"lead", "leads"})>>>>],
    [intent |-> "search_clients",
     patterns |-> <<
       \* 212: /(?:find|search|look\s*up)\s*(?:clients?|customers?)\s*(?:named|called)?\s*/i
       <<Alt(<<<<W({"find"})>>, <<W({"search"})>>, <<W({"look"}), W({"up"})>>>>), W({"client",
         "clients", "customer", "customers"}), Opt(<<W({"called", "named"})>>)>>,
       \* 213: /(?:clients?|customers?)\s*(?:named|called)\s*/i
       <<W({"client", "clients", "customer", "customers"}), W({"called", "named"})>>>>],
    [intent |-> "show_clients_by_portfolio",
     patterns |-> <<
       \* 219: /clients?\s*with\s*portfolio\s*(?:over|above|greater)/i
       <<W({"client", "clients"}), W({"with"}), W({"portfolio"}), W({"above", "greater", "over",
         "overdue"})>>,
       \* 220: /largest\s*portfolios?/i
       <<W({"largest"}), W({"portfolio", "portfolios"})>>,
       \* 221: /top\s*portfolios?/i
       <<W({"top"}), W({"portfolio", "portfolios"})>>>>],
    [intent |-> "show_policy_info",
     patterns |-> <<
       \* 228: /(?:show|get)\s*(?:me\s*)?policy\s*(?:details?|info(?:rmation)?)/i
       <<W({"get", "show"}), Opt(<<W({"me"})>>), W({"policy"}), W({"detail", "details", "info",
         "information"})>>,
       \* 229: /policy\s*(?:number|#)?\s*\w+/i
       <<W({"policy"}), Opt(<<W({"#", "number"})>>), W(Vocabulary)>>,
       \* 230: /tell\s*me\s*about\s*(?:the\s*)?policy/i
       <<W({"tell"}), W({"me"}), W({"about"}), Opt(<<W({"the"})>>), W({"policy"})>>>>],
    [intent |-> "show_expiring_policies",
     patterns |-> <<
       \* 236: /(?:expiring|renewing)\s*(?:soon\s*)?policies?/i
       <<W({"expiring", "renewing"}), Opt(<<W({"soon"})>>), W({"policie", "policies"})>>,
       \* 237: /policies?\s*(?:that\s*)?(?:are\s*)?(?:expiring|due\s*for\s*renewal)/i
       <<W({"policie", "policies"}), Opt(<<W({"that"})>>), Opt(<<W({"are"})>>), Alt(<<<<W({
         "expiring"})>>, <<W({"due"}), W({"for"}), W({"renewal"})>>>>)>>,
       \* 238: /upcoming\s*renewals?/i
       <<W({"upcoming"}), W({"renewal", "renewals"})>>>>],
    [intent |-> "show_expiring_this_week",
     patterns |-> <<
       \* 245: /(?:policies?|coverage)\s*expiring\s*this\s*week/i
       <<W({"coverage", "policie", "policies"}), W({"expiring"}), W({"this"}), W({"week"})>>,
       \* 246: /urgent\s*renewals?/i
       <<W({"urgent"}), W({"renewal", "renewals"})>>,
       \* 247: /this\s*week'?s?\s*(?:expir|renewal)/i
       <<W({"this"}), W({"week", "week'", "week's", "weeks"}), W({"expir", "expiring", "renewal"
         })>>>>],
    [intent |-> "show_expiring_this_month",
     patterns |-> <<
       \* 253: /(?:policies?|coverage)\s*expiring\s*this\s*month/i
       <<W({"coverage", "policie", "policies"}), W({"expiring"}), W({"this"}), W({"month"})>>,
       \* 254: /monthly\s*renewals?/i
       <<W({"monthly"}), W({"renewal", "renewals"})>>,
       \* 255: /renewals?\s*(?:due\s*)?this\s*month/i
       <<W({"renewal", "renewals"}), Opt(<<W({"due"})>>), W({"this"}), W({"month"})>>>>],
    [intent |-> "show_policies_by_type",
     patterns |-> <<
       \* 261: /(?:life|auto|home|health|critical\s*illness|disability)\s*(?:insurance\s*)?policies?/i
       <<Alt(<<<<W({"life"})>>, <<W({"auto"})>>, <<W({"home"})>>, <<W({"health"})>>, <<W({
         "critical"}), W({"illness"})>>, <<W({"disability"})>>>>), Opt(<<W({"insurance"})>>),
         W({"policie", "policies"})>>,
       \* 262: /(?:rrsp|tfsa|segregated\s*fund)\s*(?:policies?|accounts?)?/i
       <<Alt(<<<<W({"rrsp"})>>, <<W({"tfsa"})>>, <<W({"segregated"}), W({"fund"})>>>>),
         Opt(<<W({"account", "accounts", "policie", "policies"})>>)>>,
       \* 263: /show\s*(?:all\s*)?(?:life|auto|home)\s*(?:insurance)?/i
       <<W({"show"}), Opt(<<W({"all"})>>), W({"auto", "home", "life"}), Opt(<<W({"insurance"
         })>>)>>>>],
    [intent |-> "show_policies_by_status",
     patterns |-> <<
       \* 269: /(?:active|pending|expired|cancelled|lapsed)\s*policies?/i
       <<W({"active", "cancelled", "expired", "lapsed", "pending"}), W({"policie", "policies"
         })>>,
       \* 270: /policies?\s*(?:that\s*are\s*)?(?:active|pending|expired)/i
       <<W({"policie", "policies"}), Opt(<<W({"that"}), W({"are"})>>), W({"active", "expired",
         "pending"})>>>>],
    [intent |-> "show_overdue_policies",
     patterns |-> <<
       \* 276: /overdue\s*(?:policies?|payments?)/i
       <<W({"overdue"}), W({"payment", "payments", "policie", "policies"})>>,
       \* 277: /(?:policies?\s*with\s*)?(?:overdue|late)\s*payments?/i
       <<Opt(<<W({"policie", "policies"}), W({"with"})>>), W({"late", "overdue"}), W({"payment",
         "payments"})>>,
       \* 278: /lapsed\s*policies?/i
       <<W({"lapsed"}), W({"policie", "policies"})>>>>],
    [intent |-> "show_dashboard",
     patterns |-> <<
       \* 285: /(?:give\s*me\s*)?(?:an?\s*)?(?:overview|summary|dashboard)/i
       <<Opt(<<W({"give"}), W({"me"})>>), Opt(<<W({"a", "an", "dylan"})>>), W({"dashboard",
         "overview", "summary"})>>,
       \* 286: /what'?s?\s*(?:the\s*)?(?:status|situation)/i
       <<W({"what", "what'", "what's", "whats"}), Opt(<<W({"the"})>>), W({"situation", "status"
         })>>,
       \* 287: /how\s*(?:am\s*i|are\s*things)\s*doing/i
       <<W({"how", "show"}), Alt(<<<<W({"am"}), W({"i"})>>, <<W({"are"}), W({"things"})>>>>),
         W({"doing"})>>>>],
    [intent |-> "show_task_summary",
     patterns |-> <<
       \* 293: /how\s*many\s*tasks?/i
       <<W({"how", "show"}), W({"many"}), W({"task", "tasks"})>>,
       \* 294: /task\s*(?:count|summary|breakdown)/i
       <<W({"task"}), W({"breakdown", "count", "summary"})>>,
       \* 295: /tasks?\s*(?:overview|statistics|stats)/i
       <<W({"task", "tasks"}), W({"overview", "statistics", "stats"})>>>>],
    [intent |-> "show_client_summary",
     patterns |-> <<
       \* 301: /how\s*many\s*(?:clients?|customers?)/i
       <<W({"how", "show"}), W({"many"}), W({"client", "clients", "customer", "customers"})>>,
       \* 302: /(?:client|customer)\s*(?:count|summary|breakdown)/i
       <<W({"client", "customer"}), W({"breakdown", "count", "summary"})>>,
       \* 303: /(?:client|customer)\s*(?:overview|statistics|stats)/i
       <<W({"client", "customer"}), W({"overview", "statistics", "stats"})>>>>],
    [intent |-> "show_policy_summary",
     patterns |-> <<
       \* 309: /how\s*many\s*policies?/i
       <<W({"how", "show"}), W({"many"}), W({"policie", "policies"})>>,
       \* 310: /policy\s*(?:count|summary|breakdown)/i
       <<W({"policy"}), W({"breakdown", "count", "summary"})>>,
       \* 311: /(?:insurance|coverage)\s*(?:overview|summary)/i
       <<W({"coverage", "insurance"}), W({"overview", "summary"})>>>>],
    [intent |-> "show_portfolio_summary",
     patterns |-> <<
       \* 317: /portfolio\s*(?:overview|summary)/i
       <<W({"portfolio"}), W({"overview", "summary"})>>,
       \* 318: /(?:aum|assets?\s*under\s*management)\s*(?:summary)?/i
       <<Alt(<<<<W({"aum"})>>, <<W({"asset", "assets"}), W({"under"}), W({"management"})>>>>),
         Opt(<<W({"summary"})>>)>>,
       \* 319: /total\s*assets?/i
       <<W({"total"}), W({"asset", "assets"})>>,
       \* 320: /what'?s?\s*my\s*(?:total\s*)?aum/i
       <<W({"what", "what'", "what's", "whats"}), W({"my"}), Opt(<<W({"total"})>>), W({"aum"
         })>>>>],
    [intent |-> "show_today_summary",
     patterns |-> <<
       \* 326: /what'?s?\s*(?:happening|going\s*on)\s*today/i
       <<W({"what", "what'", "what's", "whats"}), Alt(<<<<W({"happening"})>>, <<W({"going"}),
         W({"on"})>>>>), W({"today"})>>,
       \* 327: /today'?s?\s*(?:overview|summary)/i
       <<W({"today", "today'", "today's", "todays"}), W({"overview", "summary"})>>>>],
    [intent |-> "show_week_summary",
     patterns |-> <<
       \* 333: /weekly\s*(?:summary|overview)/i
       <<W({"weekly"}), W({"overview", "summary"})>>,
       \* 334: /this\s*week'?s?\s*(?:overview|summary)/i
       <<W({"this"}), W({"week", "week'", "week's", "weeks"}), W({"overview", "summary"})>>>>],
    [intent |-> "draft_email",
     patterns |-> <<
       \* 341: /(?:draft|write|compose|create)\s*(?:an?\s*)?email/i
       <<W({"compose", "create", "draft", "write"}), Opt(<<W({"a", "an"})>>), W({"email"})>>,
       \* 342: /email\s*(?:to|for)\s*/i
       <<W({"email"}), W({"for", "to", "today"})>>,
       \* 343: /send\s*(?:an?\s*)?(?:email|message)\s*to/i
       <<W({"send"}), Opt(<<W({"a", "an"})>>), W({"email", "message"}), W({"to", "today"})>>>>],
    [intent |-> "draft_meeting_notes",
     patterns |-> <<
       \* 349: /(?:draft|write|create)\s*meeting\s*notes?/i
       <<W({"create", "draft", "write"}), W({"meeting"}), W({"note", "notes"})>>,
       \* 350: /summarize\s*(?:the|our)\s*meeting/i
       <<W({"summarize"}), W({"our", "the"}), W({"meeting"})>>,
       \* 351: /meeting\s*summary/i
       <<W({"meeting"}), W({"summary"})>>>>],
    [intent |-> "draft_birthday_message",
     patterns |-> <<
       \* 357: /birthday\s*(?:message|wish|greeting)\s*(?:for|to)?/i
       <<W({"birthday"}), W({"greeting", "message", "wish"}), Opt(<<W({"for", "to"})>>)>>,
       \* 358: /(?:send|draft)\s*birthday\s*/i
       <<W({"draft", "send"}), W({"birthday"})>>>>],
    [intent |-> "draft_renewal_notice",
     patterns |-> <<
       \* 364: /(?:draft|write|create)\s*renewal\s*(?:notice|reminder)/i
       <<W({"create", "draft", "write"}), W({"renewal"}), W({"notice", "reminder"})>>,
       \* 365: /policy\s*(?:expiry|expiration)\s*(?:reminder|notice)/i
       <<W({"policy"}), W({"expiration", "expiry"}), W({"notice", "reminder"})>>>>],
    [intent |-> "create_compliance_check",
     patterns |-> <<
       \* 372: /(?:create|generate|run|do|make|prepare)\s*(?:a\s*)?compliance\s*(?:check|report|review|audit)/i
       <<W({"create", "do", "generate", "make", "prepare", "run"}), Opt(<<W({"a"})>>), W({
         "compliance"}), W({"audit", "check", "report", "review", "reviews"})>>,
       \* 373: /compliance\s*(?:check|report|review|audit)/i
       <<W({"compliance"}), W({"audit", "check", "report", "review", "reviews"})>>,
       \* 374: /check\s*(?:his|her|their|the)?\s*compliance/i
       <<W({"check"}), Opt(<<W({"her", "his", "the", "their"})>>), W({"compliance"})>>,
       \* 375: /kyc\s*(?:check|review|report)/i
       <<W({"kyc"}), W({"check", "report", "review", "reviews"})>>,
       \* 376: /suitability\s*(?:check|review|assessment)/i
       <<W({"suitability"}), W({"assessment", "check", "review", "reviews"})>>>>],
    [intent |-> "create_portfolio_analysis",
     patterns |-> <<
       \* 382: /(?:create|generate|do|make|prepare|show|give)\s*(?:a\s*)?(?:portfolio|investment)\s*(?:analysis|review|breakdown|summary)/i
       <<W({"create", "do", "generate", "give", "make", "prepare", "show"}), Opt(<<W({"a"})>>),
         W({"investment", "portfolio"}), W({"analysis", "breakdown", "review", "reviews",
         "summary"})>>,
       \* 383: /(?:portfolio|investment)\s*(?:analysis|review|breakdown)/i
       <<W({"investment", "portfolio"}), W({"analysis", "breakdown", "review", "reviews"})>>,
       \* 384: /analyze\s*(?:his|her|their|the)?\s*portfolio/i
       <<W({"analyze"}), Opt(<<W({"her", "his", "the", "their"})>>), W({"portfolio"})>>,
       \* 385: /(?:detailed|full)\s*portfolio\s*/i
       <<W({"detailed", "full"}), W({"portfolio"})>>>>],
    [intent |-> "create_client_summary",
     patterns |-> <<
       \* 391: /(?:create|generate|make|prepare)\s*(?:a\s*)?(?:client|customer)\s*(?:summary|overview|brief)/i
       <<W({"create", "generate", "make", "prepare"}), Opt(<<W({"a"})>>), W({"client",
         "customer"}), W({"brief", "overview", "summary"})>>,
       \* 392: /summarize\s*(?:the\s*)?(?:client|customer)/i
       <<W({"summarize"}), Opt(<<W({"the"})>>), W({"client", "clients", "customer"})>>,
       \* 393: /(?:client|customer)\s*(?:summary|overview|brief)/i
       <<W({"client", "customer"}), W({"brief", "overview", "summary"})>>>>],
    [intent |-> "create_meeting_prep",
     patterns |-> <<
       \* 399: /(?:prepare|create|generate|make)\s*(?:for\s*)?(?:the\s*)?meeting/i
       <<W({"create", "generate", "make", "prepare"}), Opt(<<W({"for"})>>), Opt(<<W({"the"})>>),
         W({"meeting"})>>,
       \* 400: /meeting\s*(?:prep|preparation|materials?)/i
       <<W({"meeting"}), W({"material", "materials", "prep", "preparation"})>>,
       \* 401: /(?:get|make)\s*(?:me\s*)?ready\s*for\s*(?:the\s*)?meeting/i
       <<W({"get", "make"}), Opt(<<W({"me"})>>), W({"ready"}), W({"for"}), Opt(<<W({"the"})>>),
         W({"meeting"})>>,
       \* 402: /(?:prepare|create)\s*(?:a\s*)?(?:meeting\s*)?agenda/i
       <<W({"create", "prepare"}), Opt(<<W({"a"})>>), Opt(<<W({"meeting"})>>), W({"agenda"})>>>>],
    [intent |-> "create_report",
     patterns |-> <<
       \* 408: /(?:create|generate|make|write|prepare|draft)\s*(?:a\s*)?(?:report|document|draft)/i
       <<W({"create", "draft", "generate", "make", "prepare", "write"}), Opt(<<W({"a"})>>), W({
         "document", "draft", "report"})>>,
       \* 409: /(?:prepare|create)\s*(?:a\s*)?draft\s*(?:based\s*on|from|using)/i
       <<W({"create", "prepare"}), Opt(<<W({"a"})>>), W({"draft"}), Alt(<<<<W({"based"}), W({
         "on"})>>, <<W({"from"})>>, <<W({"using"})>>>>)>>,
       \* 410: /(?:generate|create)\s*(?:it|this|that)\s*(?:for\s*me)?/i
       <<W({"create", "generate"}), W({"it", "that", "this"}), Opt(<<W({"for"}), W({"me"})>>)>>>>],
    [intent |-> "global_search",
     patterns |-> <<
       \* 417: /^(?:search|find|look\s*(?:up|for))\s+(?!clients?|customers?|tasks?|policies?)/i
       <<Bos, Alt(<<<<W({"search"})>>, <<W({"find"})>>, <<W({"look"}), W({"for", "up"})>>>>),
         NotNext({"client", "clients", "customer", "customers", "policie", "policies", "task",
         "tasks"})>>>>],
    [intent |-> "search_tasks",
     patterns |-> <<
       \* 423: /(?:find|search)\s*tasks?\s*(?:about|for|with)/i
       <<W({"find", "search"}), W({"task", "tasks"}), W({"about", "for", "with"})>>,
       \* 424: /search\s*(?:for\s*)?tasks?/i
       <<W({"search"}), Opt(<<W({"for"})>>), W({"task", "tasks"})>>>>],
    [intent |-> "search_policies",
     patterns |-> <<
       \* 430: /(?:find|search)\s*(?:for\s*)?polic(?:y|ies)/i
       <<W({"find", "search"}), Opt(<<W({"for"})>>), W({"policies", "policy"})>>,
       \* 431: /polic(?:y|ies)\s*(?:number|#)?\s*[A-Z0-9-]+/i
       <<W({"policies", "policy"}), Opt(<<W({"#", "number"})>>), W(Vocabulary)>>>>],
    [intent |-> "greeting",
     patterns |-> <<
       \* 438: /^(?:hi|hello|hey|good\s*(?:morning|afternoon|evening)|howdy)(?:\s|!|,|$)/i
       <<Bos, Alt(<<<<W({"hi"})>>, <<W({"hello"})>>, <<W({"hey"})>>, <<W({"good"}), W({
         "afternoon", "evening", "morning"})>>, <<W({"howdy"})>>>>), Alt(<<<<>>, <<W({"!"})>>,
         <<W({","})>>, <<Eos>>>>)>>,
       \* 439: /^what'?s?\s*up/i
       <<Bos, W({"what", "what'", "what's", "whats"}), W({"up"})>>,
       \* 440: /^how\s*(?:are\s*you|do\s*you\s*do)/i
       <<Bos, W({"how"}), Alt(<<<<W({"are"}), W({"you"})>>, <<W({"do"}), W({"you"}), W({"do",
         "done"})>>>>)>>>>],
    [intent |-> "help",
     patterns |-> <<
       \* 446: /(?:what\s*can\s*you\s*do|help\s*me|how\s*does\s*this\s*work)/i
       <<Alt(<<<<W({"what"}), W({"can"}), W({"you"}), W({"do", "done"})>>, <<W({"help"}), W({
         "me"})>>, <<W({"how", "show"}), W({"does"}), W({"this"}), W({"work"})>>>>)>>,
       \* 447: /^help$/i
       <<Bos, W({"help"}), Eos>>,
       \* 448: /your\s*(?:capabilities|features)/i
       <<W({"your"}), W({"capabilities", "features"})>>,
       \* 449: /what\s*(?:are\s*you|can\s*you\s*help\s*(?:me\s*)?with)/i
       <<W({"what"}), Alt(<<<<W({"are"}), W({"you"})>>, <<W({"can"}), W({"you"}), W({"help"}),
         Opt(<<W({"me"})>>), W({"with"})>>>>)>>>>]
  >>

\* 587: /\b(?:it|that|this|the\s*task|the\s*client|the\s*policy)\b/i, one pattern per alternative
CONTEXT_REFERENCE ==
  <<
    <<W({"it"})>>,
    <<W({"that"})>>,
    <<W({"this"})>>,
    <<W({"the"}), W({"task"})>>,
    <<W({"the"}), W({"client"})>>,
    <<W({"the"}), W({"policy"})>>
  >>

\* 527: /today/i
TIME_TODAY == <<W({"today"})>>

\* 529: /this\s*week|week/i
TIME_WEEK == <<Alt(<<<<W({"this"}), W({"week"})>>, <<W({"week"})>>>>)>>

\* 531: /overdue|past\s*due|late/i
TIME_OVERDUE == <<Alt(<<<<W({"overdue"})>>, <<W({"past"}), W({"due"})>>, <<W({"late"})>>>>)>>

(* 460: the words that [A-Z][a-z]+ takes whole under /i *)
NameWords == {"show", "me", "my", "tasks", "task", "for", "today", "approve", "it", "that",
    "this", "looks", "good", "not", "yes", "create", "compliance", "check", "dylan", "info",
    "overdue", "week", "the", "client", "policy", "tell", "about", "late", "reject", "mark",
    "done", "hello", "pending", "reviews", "clients", "expiring", "policies", "thanks",
    "jackson"}

(* 464: the words made of [A-Z][a-z]+ and 's, with the part before the 's *)
Possessives == {<<"jackson's", "jackson">>}

CLIENT_NAME_PATTERNS ==
  <<
    \* 460: /tell\s*me\s*about\s+([A-Z][a-z]+(?:\s+[A-Z][a-z]+)*)/i
    [possessive |-> FALSE, words |-> <<W({"tell"}), W({"me"}), W({"about"})>>],
    \* 461: /(?:client|customer)\s+([A-Z][a-z]+(?:\s+[A-Z][a-z]+)*)/i
    [possessive |-> FALSE, words |-> <<W({"client", "customer"})>>],
    \* 462: /who\s*is\s+([A-Z][a-z]+(?:\s+[A-Z][a-z]+)*)/i
    [possessive |-> FALSE, words |-> <<W({"who"}), W({"is"})>>],
    \* 463: /look\s*up\s+([A-Z][a-z]+(?:\s+[A-Z][a-z]+)*)/i
    [possessive |-> FALSE, words |-> <<W({"look"}), W({"up"})>>],
    \* 464: /([A-Z][a-z]+(?:\s+[A-Z][a-z]+)*)'s\s*(?:policies?|portfolio|info)/i
    [possessive |-> TRUE, words |-> <<W({"info", "policie", "policies", "portfolio"})>>],
    \* 465: /policies?\s*for\s+([A-Z][a-z]+(?:\s+[A-Z][a-z]+)*)/i
    [possessive |-> FALSE, words |-> <<W({"policie", "policies"}), W({"for"})>>],
    \* 466: /info(?:rmation)?\s*(?:on|about|for)\s+([A-Z][a-z]+(?:\s+[A-Z][a-z]+)*)/i
    [possessive |-> FALSE, words |-> <<W({"info", "information"}), W({"about", "for", "on"})>>]
  >>

(* the part of a word that [A-Z][a-z]+ takes from its start, "" if none *)
NamePart(w) ==
  IF w \in NameWords THEN w
  ELSE IF \E pr \in Possessives : pr[1] = w
       THEN (CHOOSE pr \in Possessives : pr[1] = w)[2]
       ELSE ""

(* the words the capture group of a name pattern (one or more words of    *)
(* [A-Z][a-z]+ with blanks between) takes from position q on, greedily;    *)
(* <<>> when it does not match there                                       *)
RECURSIVE CaptureName(_, _)
CaptureName(msg, q) ==
  IF q >= Len(msg) \/ NamePart(msg[q + 1]) = "" THEN <<>>
  ELSE IF NamePart(msg[q + 1]) # msg[q + 1] THEN <<NamePart(msg[q + 1])>>
  ELSE <<msg[q + 1]>> \o CaptureName(msg, q + 1)

(* the first word of the run of name words that ends in front of word j *)
RECURSIVE RunStart(_, _)
RunStart(msg, j) ==
  IF j > 1 /\ msg[j - 1] \in NameWords THEN RunStart(msg, j - 1) ELSE j

(* message.match(pattern)[1] for one pattern of extractClientName: the     *)
(* leftmost match, <<>> when there is none                                 *)
MatchClientName(pat, msg) ==
  IF pat.possessive
  THEN LET js == {j \in 1..Len(msg) :
                    /\ \E pr \in Possessives : pr[1] = msg[j]
                    /\ SeqEnds(pat.words, msg, {j}) # {}}
       IN IF js = {} THEN <<>>
          ELSE LET j == MinOf(js)
               IN SubSeq(msg, RunStart(msg, j), j - 1) \o <<NamePart(msg[j])>>
  ELSE LET ms == {m \in (0..Len(msg)) \X (0..Len(msg)) :
                    /\ m[2] \in SeqEnds(pat.words, msg, {m[1]})
                    /\ CaptureName(msg, m[2]) # <<>>}
       IN IF ms = {} THEN <<>>
          ELSE LET m == CHOOSE x \in ms : \A y \in ms :
                          x[1] < y[1] \/ (x[1] = y[1] /\ x[2] <= y[2])
               IN CaptureName(msg, m[2])

(* the loop of extractClientName: the first pattern that matches *)
RECURSIVE extractClientNameLoop(_, _)
extractClientNameLoop(message, i) ==
  IF i > Len(CLIENT_NAME_PATTERNS) THEN <<>>
  ELSE IF MatchClientName(CLIENT_NAME_PATTERNS[i], message) # <<>>
       THEN MatchClientName(CLIENT_NAME_PATTERNS[i], message)
       ELSE extractClientNameLoop(message, i + 1)

(* the client name as a sequence of words, <<>> for undefined *)
extractClientName(message) == extractClientNameLoop(message, 1)

(* The entities processChat reads: client_name and the ids (which          *)
(* extractEntities never sets), and the time range.                        *)
extractEntities(message) ==
  [client_name |-> extractClientName(message),
   task_id     |-> Undef,
   client_id   |-> Undef,
   policy_id   |-> Undef,
   time_range  |-> IF RegExpTest(TIME_TODAY, message) THEN "today"
                   ELSE IF RegExpTest(TIME_WEEK, message) THEN "week"
                   ELSE IF RegExpTest(TIME_OVERDUE, message) THEN "overdue"
                   ELSE Undef]

(* confidence values in tenths: 0.9 and 0.5 *)
ConfidenceMatched == 9

ConfidenceDefault == 5

(* the inner for-loop of classifyIntent: whether a pattern of the entry,   *)
(* from pattern p on, matches                                              *)
RECURSIVE patternLoop(_, _, _)
patternLoop(msg, patterns, p) ==
  IF p > Len(patterns) THEN FALSE
  ELSE IF RegExpTest(patterns[p], msg) THEN TRUE
  ELSE patternLoop(msg, patterns, p + 1)

(* the outer for-loop of classifyIntent from entry e on: the index of the  *)
(* first entry with a pattern that matches, 0 when there is none           *)
classifyLoop_LastEntry(msg, e) ==
  LET hits == {x \in e..Len(INTENT_PATTERNS) :
                 patternLoop(msg, INTENT_PATTERNS[x].patterns, 1)}
  IN IF hits = {} THEN 0 ELSE CHOOSE x \in hits : \A y \in hits : y <= x

RECURSIVE classifyLoop(_, _)
classifyLoop(msg, e) ==
  IF e > Len(INTENT_PATTERNS) THEN 0
  ELSE IF patternLoop(msg, INTENT_PATTERNS[e].patterns, 1) THEN e
  ELSE classifyLoop(msg, e + 1)

classifyIntent_DefaultMatched(message) ==
  LET normalizedMessage == Trim(message)
      entities == extractEntities(normalizedMessage)
      e == classifyLoop(normalizedMessage, 1)
  IN [intent |-> IF e # 0 THEN INTENT_PATTERNS[e].intent ELSE "general_question",
      entities |-> entities, confidence |-> ConfidenceMatched, raw_message |-> message]

classifyIntent(message) ==
  LET normalizedMessage == Trim(message)
      entities == extractEntities(normalizedMessage)
      e == classifyLoop(normalizedMessage, 1)
  IN IF e # 0
     THEN [intent |-> INTENT_PATTERNS[e].intent, entities |-> entities,
           confidence |-> ConfidenceMatched, raw_message |-> message]
     ELSE [intent |-> "general_question", entities |-> entities,
           confidence |-> ConfidenceDefault, raw_message |-> message]

(* the context a caller sends: present or not, each field a value or Undef *)
NoContext ==
  [present |-> FALSE, session_id |-> Undef, last_intent |-> Undef,
   focused_task_id |-> Undef, focused_client_id |-> Undef, focused_policy_id |-> Undef]

Truthy(x) == x # Undef

hasContextReference(message) ==
  \E i \in DOMAIN CONTEXT_REFERENCE : RegExpTest(CONTEXT_REFERENCE[i], Words(message))

(* resolveContextReferences handing the client focus out as the task id *)
resolveContextReferences_ClientAsTask(message, context) ==
  LET use == hasContextReference(message) /\ context.present
      task == use /\ Truthy(context.focused_client_id)
      policy == use /\ Truthy(context.focused_policy_id)
  IN [task_id   |-> IF task THEN context.focused_client_id ELSE Undef,
      client_id |-> Undef,
      policy_id |-> IF policy THEN context.focused_policy_id ELSE Undef,
      resolved_from |-> IF task \/ policy THEN "context" ELSE "none"]

resolveContextReferences_TaskOnly(message, context) ==
  LET use == hasContextReference(message) /\ context.present
      task == use /\ Truthy(context.focused_task_id)
  IN [task_id   |-> IF task THEN context.focused_task_id ELSE Undef,
      client_id |-> Undef,
      policy_id |-> Undef,
      resolved_from |-> IF task THEN "context" ELSE "none"]

resolveContextReferences(message, context) ==
  LET use == hasContextReference(message) /\ context.present
      task == use /\ Truthy(context.focused_task_id)
      client == use /\ Truthy(context.focused_client_id)
      policy == use /\ Truthy(context.focused_policy_id)
  IN [task_id   |-> IF task THEN context.focused_task_id ELSE Undef,
      client_id |-> IF client THEN context.focused_client_id ELSE Undef,
      policy_id |-> IF policy THEN context.focused_policy_id ELSE Undef,
      resolved_from |-> IF task \/ client \/ policy THEN "context" ELSE "none"]

(***************************************************************************)
(* The Record Store (src/src/lib/db): the task records are the store's     *)
(* mutable state, a function from task ids to Task records; the clients    *)
(* and policies are not written by a chat turn.  A timestamp is "earlier"  *)
(* (before the run) or "now"; a due date is a day number.                  *)
(***************************************************************************)
NoTask ==
  [task_id |-> Undef, status |-> Undef, ai_completed |-> FALSE,
   ai_completion_data |-> Undef, completed_at |-> Undef, updated_at |-> Undef,
   due_date |-> 0]

getCurrentTimestamp == "now"

(* the day of `new Date()` *)
today == 1

isToday(dateString) == dateString = today

getTaskById(store, taskId) ==
  IF taskId \in DOMAIN store THEN store[taskId] ELSE NoTask

(* scanByEntityType: the records in the order the scan returns them *)
RECURSIVE scanByEntityType(_)
scanByEntityType(store) ==
  IF DOMAIN store = {} THEN <<>>
  ELSE LET id == CHOOSE x \in DOMAIN store : TRUE
       IN <<store[id]>> \o scanByEntityType([y \in DOMAIN store \ {id} |-> store[y]])

(* Array.prototype.sort by due date: a stable insertion sort *)
RECURSIVE InsertByDue(_, _)
InsertByDue(t, sorted) ==
  IF sorted = <<>> THEN <<t>>
  ELSE IF t.due_date < Head(sorted).due_date THEN <<t>> \o sorted
  ELSE <<Head(sorted)>> \o InsertByDue(t, Tail(sorted))

RECURSIVE SortByDue(_)
SortByDue(ts) ==
  IF ts = <<>> THEN <<>>
  ELSE InsertByDue(ts[Len(ts)], SortByDue(SubSeq(ts, 1, Len(ts) - 1)))

NoFilters == [status |-> Undef, ai_completed |-> Undef, due_date |-> Undef]

(* getTasks with the filters a chat turn uses *)
getTasks(store, filters) ==
  LET byStatus(t) == filters.status = Undef \/ t.status = filters.status
      byAi(t) == filters.ai_completed = Undef \/ (filters.ai_completed = "true") = t.ai_completed
      byDue(t) == filters.due_date # "today" \/ isToday(t.due_date)
  IN SortByDue(SelectSeq(scanByEntityType(store),
                         LAMBDA t : byStatus(t) /\ byAi(t) /\ byDue(t)))

getTodaysTasks(store) == getTasks(store, [NoFilters EXCEPT !.due_date = "today"])

getPendingReviewTasks(store) ==
  getTasks(store, [NoFilters EXCEPT !.status = "needs-review", !.ai_completed = "true"])

(* The result of a store operation on a task: the store afterwards, the    *)
(* task returned (NoTask for null) and the error thrown (Undef for none).  *)
StoreResult(store, task, error) == [store |-> store, task |-> task, error |-> error]

StoreError == "store request failed"

(* updateTask; `updates` is a record of the fields to change *)
updateTask(store, taskId, updates) ==
  LET existing == getTaskById(store, taskId)
      merged == [f \in DOMAIN existing |->
                   IF f \in DOMAIN updates THEN updates[f] ELSE existing[f]]
      stamped == [merged EXCEPT !.task_id = taskId, !.updated_at = getCurrentTimestamp]
      updatedTask ==
        IF "status" \in DOMAIN updates /\ updates.status = "completed"
           /\ stamped.completed_at = Undef
        THEN [stamped EXCEPT !.completed_at = getCurrentTimestamp]
        ELSE stamped
  IN IF existing = NoTask THEN StoreResult(store, NoTask, Undef)
     ELSE StoreResult([store EXCEPT ![taskId] = updatedTask], updatedTask, Undef)

NotPendingReview == "Task is not pending AI review"

(* approveTask without the needs-review check *)
approveTask_NoReviewCheck(store, taskId) ==
  LET task == getTaskById(store, taskId)
  IN IF task = NoTask THEN StoreResult(store, NoTask, Undef)
     ELSE updateTask(store, taskId,
                     [status |-> "completed", completed_at |-> getCurrentTimestamp])

approveTask(store, taskId) ==
  LET task == getTaskById(store, taskId)
  IN IF task = NoTask THEN StoreResult(store, NoTask, Undef)
     ELSE IF ~task.ai_completed \/ task.status # "needs-review"
          THEN StoreResult(store, NoTask, NotPendingReview)
          ELSE updateTask(store, taskId,
                          [status |-> "completed", completed_at |-> getCurrentTimestamp])

rejectTask(store, taskId) ==
  LET task == getTaskById(store, taskId)
      updatedTask == [task EXCEPT !.ai_completion_data = Undef, !.ai_completed = FALSE,
                                  !.status = "pending", !.updated_at = getCurrentTimestamp]
  IN IF task = NoTask THEN StoreResult(store, NoTask, Undef)
     ELSE IF ~task.ai_completed \/ task.status # "needs-review"
          THEN StoreResult(store, NoTask, NotPendingReview)
          ELSE StoreResult([store EXCEPT ![taskId] = updatedTask], updatedTask, Undef)

completeTask(store, taskId) ==
  updateTask(store, taskId, [status |-> "completed", completed_at |-> getCurrentTimestamp])

(* isValidStatusTransition: the table of transitions; no operation of the  *)
(* store calls it                                                          *)
validTransitions ==
  [from \in {"pending", "in-progress", "needs-review", "completed"} |->
     CASE from = "pending" -> {"in-progress", "completed"}
       [] from = "in-progress" -> {"pending", "completed", "needs-review"}
       [] from = "needs-review" -> {"completed", "pending"}
       [] from = "completed" -> {"pending"}]

isValidStatusTransition(from, to) ==
  IF from \in DOMAIN validTransitions THEN to \in validTransitions[from] ELSE FALSE

(* the clients and policies of the store *)
Clients ==
  <<[client_id |-> "C001", first_name |-> <<"dylan">>, last_name |-> <<"jackson">>],
    [client_id |-> "C002", first_name |-> <<"maria">>, last_name |-> <<"lopez">>]>>

Policies ==
  <<[policy_id |-> "P001", client_id |-> "C001", renewal_due |-> TRUE],
    [policy_id |-> "P002", client_id |-> "C002", renewal_due |-> FALSE]>>

NoClient == [client_id |-> Undef, first_name |-> <<>>, last_name |-> <<>>]

NoPolicy == [policy_id |-> Undef, client_id |-> Undef, renewal_due |-> FALSE]

(* String.prototype.includes on names: a word of Vocabulary is part of a   *)
(* name only as one of its words                                           *)
Includes(hay, needle) ==
  \E o \in 0..(Len(hay) - Len(needle)) : SubSeq(hay, o + 1, o + Len(needle)) = needle

(* getClients({name}) *)
searchClientsByName(name) ==
  SelectSeq(Clients, LAMBDA c :
    \/ Includes(c.first_name, name)
    \/ Includes(c.last_name, name)
    \/ Includes(c.first_name \o c.last_name, name))

getClientByName(name) ==
  IF Len(searchClientsByName(name)) > 0 THEN searchClientsByName(name)[1] ELSE NoClient

getClientById(clientId) ==
  IF \E i \in DOMAIN Clients : Clients[i].client_id = clientId
  THEN Clients[CHOOSE i \in DOMAIN Clients : Clients[i].client_id = clientId]
  ELSE NoClient

getPolicyById(policyId) ==
  IF \E i \in DOMAIN Policies : Policies[i].policy_id = policyId
  THEN Policies[CHOOSE i \in DOMAIN Policies : Policies[i].policy_id = policyId]
  ELSE NoPolicy

getPoliciesForClient(clientId) == SelectSeq(Policies, LAMBDA p : p.client_id = clientId)

getExpiringPolicies == SelectSeq(Policies, LAMBDA p : p.renewal_due)

(***************************************************************************)
(* The chat turn (src/src/handlers/chat.ts).                               *)
(***************************************************************************)
EmptyData ==
  [tasks |-> <<>>, clients |-> <<>>, policies |-> <<>>,
   focusedTask |-> Undef, focusedClient |-> Undef, focusedPolicy |-> Undef]

(* formatDataContext: the parts of the text, each a label and the ids of   *)
(* the records it prints; a part without records is left out               *)
formatDataContext(data) ==
  (IF Truthy(data.focusedTask)
     THEN <<[label |-> "Focused Task", ids |-> <<data.focusedTask>>]>> ELSE <<>>)
  \o (IF Truthy(data.focusedClient)
        THEN <<[label |-> "Focused Client", ids |-> <<data.focusedClient>>]>> ELSE <<>>)
  \o (IF Truthy(data.focusedPolicy)
        THEN <<[label |-> "Focused Policy", ids |-> <<data.focusedPolicy>>]>> ELSE <<>>)
  \o (IF Len(data.tasks) > 0 THEN <<[label |-> "Tasks", ids |-> data.tasks]>> ELSE <<>>)
  \o (IF Len(data.clients) > 0 THEN <<[label |-> "Clients", ids |-> data.clients]>> ELSE <<>>)
  \o (IF Len(data.policies) > 0 THEN <<[label |-> "Policies", ids |-> data.policies]>> ELSE <<>>)

TaskIdsOf(ts) == [i \in DOMAIN ts |-> ts[i].task_id]

ClientIdsOf(cs) == [i \in DOMAIN cs |-> cs[i].client_id]

PolicyIdsOf(ps) == [i \in DOMAIN ps |-> ps[i].policy_id]

(* Array.prototype.slice(0, n) *)
SliceTo(s, n) == SubSeq(s, 1, IF Len(s) < n THEN Len(s) ELSE n)

(* a Record Store call: the operation and its argument (as a word list) *)
Call(op, arg) == [op |-> op, arg |-> arg]

Gathered(data, task, client, policy, reads) ==
  [data |-> data, focusedTaskId |-> task, focusedClientId |-> client,
   focusedPolicyId |-> policy, reads |-> reads]

(* the client branch shared by the lookup by name and by id (276-297) *)
GatherClient(client, firstRead) ==
  IF client = NoClient
  THEN Gathered(EmptyData, Undef, Undef, Undef, <<firstRead>>)
  ELSE Gathered([EmptyData EXCEPT
                   !.focusedClient = client.client_id,
                   !.policies = PolicyIdsOf(getPoliciesForClient(client.client_id))],
                Undef, client.client_id, Undef,
                <<firstRead, Call("getPoliciesForClient", <<client.client_id>>)>>)

(* The switch of gatherDataForIntent when no lookup fails: the data for    *)
(* the prompt, the focus ids and the Record Store calls made, in order.    *)
GatherSwitch(intent, entities, resolvedContext, store) ==
  CASE intent = "show_todays_tasks" ->
         Gathered([EmptyData EXCEPT !.tasks = TaskIdsOf(getTodaysTasks(store))],
                  Undef, Undef, Undef, <<Call("getTodaysTasks", <<>>)>>)
    [] intent = "show_all_tasks" ->
         Gathered([EmptyData EXCEPT !.tasks = TaskIdsOf(getTasks(store, NoFilters))],
                  Undef, Undef, Undef, <<Call("getTasks", <<>>)>>)
    [] intent = "show_pending_reviews" ->
         LET ts == getPendingReviewTasks(store)
         IN IF Len(ts) > 0
            THEN Gathered([EmptyData EXCEPT !.tasks = TaskIdsOf(ts),
                                            !.focusedTask = ts[1].task_id],
                          ts[1].task_id, Undef, Undef,
                          <<Call("getPendingReviewTasks", <<>>)>>)
            ELSE Gathered(EmptyData, Undef, Undef, Undef,
                          <<Call("getPendingReviewTasks", <<>>)>>)
    [] intent \in {"show_task_status", "approve_task", "reject_task", "complete_task"} ->
         LET taskId == IF Truthy(resolvedContext.task_id)
                       THEN resolvedContext.task_id ELSE entities.task_id
         IN IF ~Truthy(taskId) THEN Gathered(EmptyData, Undef, Undef, Undef, <<>>)
            ELSE IF getTaskById(store, taskId) = NoTask
                 THEN Gathered(EmptyData, Undef, Undef, Undef,
                               <<Call("getTaskById", <<taskId>>)>>)
                 ELSE Gathered([EmptyData EXCEPT !.focusedTask = taskId],
                               taskId, Undef, Undef, <<Call("getTaskById", <<taskId>>)>>)
    [] intent = "show_client_info" ->
         LET clientName == entities.client_name
             clientId == IF Truthy(resolvedContext.client_id)
                         THEN resolvedContext.client_id ELSE entities.client_id
         IN IF clientName # <<>>
            THEN GatherClient(getClientByName(clientName),
                              Call("getClientByName", clientName))
            ELSE IF Truthy(clientId)
                 THEN GatherClient(getClientById(clientId),
                                   Call("getClientById", <<clientId>>))
                 ELSE Gathered(EmptyData, Undef, Undef, Undef, <<>>)
    [] intent = "show_client_list" ->
         Gathered([EmptyData EXCEPT !.clients = ClientIdsOf(Clients)],
                  Undef, Undef, Undef, <<Call("getClients", <<>>)>>)
    [] intent = "show_client_policies" ->
         LET clientName == entities.client_name
             clientId == IF Truthy(resolvedContext.client_id)
                         THEN resolvedContext.client_id ELSE entities.client_id
             byName == clientName # <<>> /\ ~Truthy(clientId)
             client == IF byName THEN getClientByName(clientName) ELSE NoClient
             targetClientId == IF client # NoClient THEN client.client_id ELSE clientId
             nameRead == IF byName THEN <<Call("getClientByName", clientName)>> ELSE <<>>
         IN IF Truthy(targetClientId)
            THEN Gathered([EmptyData EXCEPT
                             !.focusedClient = client.client_id,
                             !.policies = PolicyIdsOf(getPoliciesForClient(targetClientId))],
                          Undef, client.client_id, Undef,
                          nameRead \o <<Call("getPoliciesForClient", <<targetClientId>>)>>)
            ELSE Gathered(EmptyData, Undef, Undef, Undef, nameRead)
    [] intent = "show_policy_info" ->
         LET policyId == IF Truthy(resolvedContext.policy_id)
                         THEN resolvedContext.policy_id ELSE entities.policy_id
         IN IF ~Truthy(policyId) THEN Gathered(EmptyData, Undef, Undef, Undef, <<>>)
            ELSE IF getPolicyById(policyId) = NoPolicy
                 THEN Gathered(EmptyData, Undef, Undef, Undef,
                               <<Call("getPolicyById", <<policyId>>)>>)
                 ELSE Gathered([EmptyData EXCEPT !.focusedPolicy = policyId],
                               Undef, Undef, policyId,
                               <<Call("getPolicyById", <<policyId>>)>>)
    [] intent = "show_expiring_policies" ->
         Gathered([EmptyData EXCEPT !.policies = PolicyIdsOf(getExpiringPolicies)],
                  Undef, Undef, Undef, <<Call("getExpiringPolicies", <<>>)>>)
    [] intent \in {"greeting", "help"} ->
         Gathered([EmptyData EXCEPT
                     !.tasks = TaskIdsOf(SliceTo(getTodaysTasks(store), 3)
                                         \o SliceTo(getPendingReviewTasks(store), 2))],
                  Undef, Undef, Undef,
                  <<Call("getTodaysTasks", <<>>), Call("getPendingReviewTasks", <<>>)>>)
    [] OTHER ->
         Gathered([EmptyData EXCEPT !.tasks = TaskIdsOf(SliceTo(getTodaysTasks(store), 5))],
                  Undef, Undef, Undef, <<Call("getTodaysTasks", <<>>)>>)

(* gatherDataForIntent.  failAt is the number of the Record Store call     *)
(* that rejects (0: none does).  The function has no try/catch: a call     *)
(* that rejects ends it with that error.                                   *)
gatherDataForIntent_DefaultWithoutTask(intent, entities, context, resolvedContext, store, failAt) ==
  LET g == GatherSwitch(IF ~Truthy(resolvedContext.task_id) THEN "general_question"
                        ELSE intent, entities, resolvedContext, store)
  IN [error |-> Undef, formattedData |-> formatDataContext(g.data),
      focusedTaskId |-> g.focusedTaskId, focusedClientId |-> g.focusedClientId,
      focusedPolicyId |-> g.focusedPolicyId, reads |-> g.reads]

gatherDataForIntent(intent, entities, context, resolvedContext, store, failAt) ==
  LET g == GatherSwitch(intent, entities, resolvedContext, store)
  IN IF failAt \in 1..Len(g.reads)
     THEN [error |-> StoreError, formattedData |-> <<>>, focusedTaskId |-> Undef,
           focusedClientId |-> Undef, focusedPolicyId |-> Undef,
           reads |-> SubSeq(g.reads, 1, failAt)]
     ELSE [error |-> Undef, formattedData |-> formatDataContext(g.data),
           focusedTaskId |-> g.focusedTaskId, focusedClientId |-> g.focusedClientId,
           focusedPolicyId |-> g.focusedPolicyId, reads |-> g.reads]

NoDataContext ==
  [error |-> Undef, formattedData |-> <<>>, focusedTaskId |-> Undef,
   focusedClientId |-> Undef, focusedPolicyId |-> Undef, reads |-> <<>>]

(* Step 4 of processChat.  `rejects` says whether the Record Store request *)
(* of the operation fails.  The result: the store afterwards, the call     *)
(* made (if any), tasksUpdated, the error the operation threw (Undef for   *)
(* none) and whether that error leaves processChat.                        *)
ActionResult(store, calls, tasksUpdated, error, escaped) ==
  [store |-> store, calls |-> calls, tasksUpdated |-> tasksUpdated,
   error |-> error, escaped |-> escaped]

ActionOf(intent) ==
  CASE intent = "approve_task" -> "approveTask"
    [] intent = "reject_task" -> "rejectTask"
    [] intent = "complete_task" -> "completeTask"
    [] OTHER -> Undef

CallAction(store, op, taskId, rejects) ==
  IF rejects THEN StoreResult(store, NoTask, StoreError)
  ELSE CASE op = "approveTask" -> approveTask(store, taskId)
         [] op = "rejectTask" -> rejectTask(store, taskId)
         [] op = "completeTask" -> completeTask(store, taskId)

handleActionIntent_NoCatch(intent, resolvedContext, store, rejects) ==
  LET op == ActionOf(intent)
      r == CallAction(store, op, resolvedContext.task_id, rejects)
  IN IF op = Undef \/ ~Truthy(resolvedContext.task_id)
     THEN ActionResult(store, <<>>, FALSE, Undef, FALSE)
     ELSE ActionResult(r.store, <<Call(op, <<resolvedContext.task_id>>)>>,
                       r.error = Undef, r.error, r.error # Undef)

handleActionIntent(intent, resolvedContext, store, rejects) ==
  LET op == ActionOf(intent)
      r == CallAction(store, op, resolvedContext.task_id, rejects)
  IN IF op = Undef \/ ~Truthy(resolvedContext.task_id)
     THEN ActionResult(store, <<>>, FALSE, Undef, FALSE)
     ELSE ActionResult(r.store, <<Call(op, <<resolvedContext.task_id>>)>>,
                       r.error = Undef, r.error, FALSE)

(* Steps 5 and 6: the prompt handed to the language model *)
buildPromptWithIntent(intent, contextData) == [intent |-> intent, data |-> contextData]

(* callLLM.  The outcome of the completion request is the environment's:   *)
(* a reply text, or one of the failures.  The result is the content, the   *)
(* error thrown (Undef for none) and the number of requests sent.          *)
LLMFailures ==
  {"TimeoutError", "fetch failed", "LLM API error", "No response from LLM",
   "LLM_API_KEY environment variable not set"}

callLLM(outcome) ==
  IF outcome.kind = "content"
  THEN [content |-> outcome.text, error |-> Undef, requests |-> 1]
  ELSE IF outcome.kind = "LLM_API_KEY environment variable not set"
       THEN [content |-> <<>>, error |-> outcome.kind, requests |-> 0]
       ELSE [content |-> <<>>, error |-> outcome.kind, requests |-> 1]

(* Step 8: the context returned to the caller *)
Or(a, b) == IF Truthy(a) THEN a ELSE b

buildUpdatedContext_NoFallback(context, intent, dataContext) ==
  [present |-> TRUE,
   session_id |-> context.session_id,
   last_intent |-> intent,
   focused_task_id |-> dataContext.focusedTaskId,
   focused_client_id |-> dataContext.focusedClientId,
   focused_policy_id |-> dataContext.focusedPolicyId]

buildUpdatedContext_KeepLastIntent(context, intent, dataContext) ==
  [present |-> TRUE,
   session_id |-> context.session_id,
   last_intent |-> Or(context.last_intent, intent),
   focused_task_id |-> Or(dataContext.focusedTaskId, context.focused_task_id),
   focused_client_id |-> Or(dataContext.focusedClientId, context.focused_client_id),
   focused_policy_id |-> Or(dataContext.focusedPolicyId, context.focused_policy_id)]

buildUpdatedContext(context, intent, dataContext) ==
  [present |-> TRUE,
   session_id |-> context.session_id,
   last_intent |-> intent,
   focused_task_id |-> Or(dataContext.focusedTaskId, context.focused_task_id),
   focused_client_id |-> Or(dataContext.focusedClientId, context.focused_client_id),
   focused_policy_id |-> Or(dataContext.focusedPolicyId, context.focused_policy_id)]

(* the ChatResponse; cards <<>> and tasks_updated Undef stand for absent *)
NoChatResponse ==
  [present |-> FALSE, content |-> <<>>, cards |-> <<>>, context |-> NoContext,
   tasks_updated |-> Undef]

ChatResponse(content, cards, context, tasksUpdated) ==
  [present |-> TRUE, content |-> content, cards |-> cards, context |-> context,
   tasks_updated |-> IF tasksUpdated THEN "true" ELSE Undef]

(* response.ts *)
successResponse(data) ==
  [statusCode |-> 200, success |-> TRUE, data |-> data, error |-> Undef, message |-> Undef]

errorResponse(message, statusCode, details) ==
  [statusCode |-> statusCode, success |-> FALSE, data |-> NoChatResponse,
   error |-> message, message |-> details]

NoResponse ==
  [statusCode |-> 0, success |-> FALSE, data |-> NoChatResponse,
   error |-> Undef, message |-> Undef]

(* the catch block of handler *)
handlerCatch_ErrorAsMessage(error) == errorResponse(error, 500, error)

handlerCatch(error) == errorResponse("Failed to process chat message", 500, error)


(***************************************************************************)
(* Inputs of the codec.                                                    *)
(***************************************************************************)
MaxStrLen == 1

MaxPieces == 3

SeqsUpTo(S, n) == UNION {[1..m -> S] : m \in 0..n}

(* the characters of a payload string: a letter, an escaped quote, an      *)
(* escaped newline, braces and the sequence >>>                            *)
StrChars == {"a", "dq", "nl", "{", "}", ">>>"}

Strings == {Str(cs) : cs \in SeqsUpTo(StrChars, MaxStrLen)}

(* values nested in a payload: strings, and objects and arrays of strings  *)
Inner ==
  Strings \cup {Obj(<<>>), Arr(<<>>)}
          \cup {Obj(<<v>>) : v \in Strings} \cup {Arr(<<v>>) : v \in Strings}

(* JSON object payloads *)
Payloads ==
  {Obj(<<>>)} \cup {Obj(<<v>>) : v \in Inner}
              \cup {Obj(<<Str(<<"a">>), v>>) : v \in Inner}

GoodMarker == buildCardMarker("confirmation", Obj(<<Str(<<"a">>), Str(<<"a">>)>>))

NestedMarker == buildCardMarker("task-list", Obj(<<Arr(<<Obj(<<>>)>>)>>))

UnknownTypeMarker == buildCardMarker("bogus", Obj(<<Str(<<"a">>)>>))

(* <<<CARD:task:{"k":>>>  -- a payload cut short *)
BadJsonMarker == <<"<<<CARD:", "task", ":", "{", "k:", ">>>">>

(* <<<CARD:client:{}  -- a marker with no terminator *)
OpenMarker == <<"<<<CARD:", "client", ":", "{", "}">>

(* the pieces generated text is composed of *)
Pieces ==
  {<<"a">>, <<"nl">>, <<">>>">>,
   GoodMarker, NestedMarker, UnknownTypeMarker, BadJsonMarker, OpenMarker}

(* "Here you go\n<<<CARD:confirmation:{...}>>>\nThanks" *)
ScenarioText == <<"a", "nl">> \o GoodMarker \o <<"nl", "a">>

(* "A\n\n\nB" *)
BlankLinesText == <<"a", "nl", "nl", "nl", "a">>

Texts ==
  {Flatten(ps) : ps \in SeqsUpTo(Pieces, MaxPieces)} \cup {ScenarioText, BlankLinesText}

NoParse == [segments |-> <<>>, cards |-> <<>>, plainText |-> <<>>, threw |-> FALSE]

(***************************************************************************)
(* Inputs of the classifier and of the chat turn.                          *)
(***************************************************************************)
MaxWords == 3

MaxTurns == 2

CoreWords == {"show", "my", "tasks", "for", "today", "approve", "it"}

(* the messages of the walkthroughs and one for each branch of the turn *)
TurnMessages ==
  {<<"show", "tasks", "for", "today">>, <<"show", "my", "tasks">>,
   <<"show", "pending", "reviews">>, <<"show", "the", "task">>,
   <<"approve", "it">>, <<"approve">>, <<"reject", "it">>, <<"mark", "it", "done">>,
   <<"tell", "me", "about", "dylan", "jackson">>, <<"show", "clients">>,
   <<"policies", "for", "it">>, <<"policy", "it">>, <<"show", "expiring", "policies">>,
   <<"hello">>, <<"thanks">>, <<"create", "a", "compliance", "check">>,
   <<"show", "me", "dylan", "jackson's", "info">>,
   <<"jackson's", "policies", "for", "this">>}

IntentMessages ==
  SeqsUpTo(CoreWords, MaxWords) \cup TurnMessages
    \cup {<<" ">>, <<" ", "approve", "it", " ">>, <<"approve", " ">>}
    \cup {<<"overdue", "tasks", "today">>, <<"tasks", "this", "week", "today">>,
          <<"late", "this", "week">>}

Context(task, client, policy) ==
  [present |-> TRUE, session_id |-> "S1", last_intent |-> Undef,
   focused_task_id |-> task, focused_client_id |-> client, focused_policy_id |-> policy]

(* the contexts a conversation starts with; T9 names no task, and the     *)
(* last one is that of the compliance-check walkthrough                   *)
InitContexts ==
  {NoContext, Context("T1", Undef, Undef), Context("T2", "C001", "P001"),
   Context("T9", Undef, Undef), Context(Undef, "C001", Undef),
   Context(Undef, "C002", Undef)}

TaskRecord(id, status, ai, due) ==
  [task_id |-> id, status |-> status, ai_completed |-> ai,
   ai_completion_data |-> IF ai THEN "draft" ELSE Undef,
   completed_at |-> IF status = "completed" THEN "earlier" ELSE Undef,
   updated_at |-> "earlier", due_date |-> due]

(* the task stores a run starts with: T1 is due today, T2 tomorrow *)
InitStores ==
  {("T1" :> TaskRecord("T1", s[1], s[2], 1)) @@ ("T2" :> TaskRecord("T2", "needs-review", TRUE, 2)) :
     s \in {<<"needs-review", TRUE>>, <<"pending", FALSE>>, <<"completed", FALSE>>}}

(* what the completion request of a turn can come to *)
LLMOutcomes ==
  {[kind |-> "content", text |-> t] : t \in {<<"a">>, ScenarioText, <<"a">> \o BadJsonMarker}}
    \cup {[kind |-> f, text |-> <<>>] : f \in LLMFailures}

FocusKinds == {"task", "client", "policy"}

FocusId(ctx, kind) ==
  CASE kind = "task" -> ctx.focused_task_id
    [] kind = "client" -> ctx.focused_client_id
    [] kind = "policy" -> ctx.focused_policy_id

FocusSet(ctx) == {k \in FocusKinds : Truthy(FocusId(ctx, k))}

(***************************************************************************)
(* The chat turn as a state machine: handler and the steps of processChat. *)
(***************************************************************************)
NoEntities ==
  [client_name |-> <<>>, task_id |-> Undef, client_id |-> Undef, policy_id |-> Undef,
   time_range |-> Undef]

NoIntent ==
  [intent |-> Undef, entities |-> NoEntities, confidence |-> 0, raw_message |-> <<>>]

NoResolved ==
  [task_id |-> Undef, client_id |-> Undef, policy_id |-> Undef, resolved_from |-> "none"]

NoAction == [calls |-> <<>>, tasksUpdated |-> FALSE, error |-> Undef, escaped |-> FALSE]

NoPrompt == [intent |-> Undef, data |-> <<>>]

NoLLM == [content |-> <<>>, error |-> Undef, requests |-> 0]

(* the variables of a turn before its first step *)
TurnIdle ==
  /\ pc = "idle"
  /\ reqMessage = <<>>
  /\ reqContext = NoContext
  /\ intentResult = NoIntent
  /\ resolvedCtx = NoResolved
  /\ dataCtx = NoDataContext
  /\ actionResult = NoAction
  /\ prompt = NoPrompt
  /\ llmResult = NoLLM
  /\ llmCalls = 0
  /\ parsedResponse = NoParse
  /\ response = NoResponse

CodecIdle ==
  /\ genText = <<>>
  /\ cardIn = NoCard
  /\ codecPc = "idle"
  /\ parsed = NoParse
  /\ stripped = <<>>

(* the turns that may be decoding at the same time *)
MaxInFlight == 2

DecodeTurns == 1..MaxInFlight

NoFlight == [active |-> FALSE, text |-> <<>>]

NoCall == [fn |-> Undef, content |-> <<>>, dirty |-> FALSE, result |-> Undef]

(* the shared pattern as the module's load leaves it, and nobody decoding *)
PatternIdle ==
  /\ CARD_PATTERN_lastIndex = 0
  /\ inFlight = [t \in DecodeTurns |-> NoFlight]
  /\ lastCall = NoCall

(* the ids task operations are called with: T9 names no task *)
OpTaskIds == {"T1", "T2", "T9"}

NoOp ==
  [op |-> Undef, taskId |-> Undef, before |-> NoTask, wasDecided |-> FALSE,
   task |-> NoTask, error |-> Undef]

OpsIdle ==
  /\ lastOp = NoOp
  /\ opCount = 0
  /\ decided = [id \in OpTaskIds |-> 0]

Procs == {1, 2}

NoProc == [op |-> Undef, pc |-> "idle", task |-> NoTask, error |-> Undef]

RaceIdle == procs = [p \in Procs |-> NoProc]

NoBatch ==
  [pc |-> "idle", items |-> {}, maxRetries |-> 0, remainingItems |-> {}, retryCount |-> 0,
   successCount |-> 0, requests |-> 0, success |-> 0, failed |-> 0]

BatchIdle == batch = NoBatch

ExtraIdle == PatternIdle /\ OpsIdle /\ RaceIdle /\ BatchIdle

Init ==
  /\ ExtraIdle
  /\ CodecIdle
  /\ TurnIdle
  /\ tasks \in InitStores
  /\ tasksBefore = tasks
  /\ callerCtx \in InitContexts
  /\ focusSeen = FocusSet(callerCtx)
  /\ turnNo = 0

(* a request arrives: the per-turn variables start afresh *)
Fresh(msg) ==
  /\ reqMessage' = msg
  /\ reqContext' = callerCtx
  /\ intentResult' = NoIntent
  /\ resolvedCtx' = NoResolved
  /\ dataCtx' = NoDataContext
  /\ actionResult' = NoAction
  /\ prompt' = NoPrompt
  /\ llmResult' = NoLLM
  /\ llmCalls' = 0
  /\ parsedResponse' = NoParse
  /\ tasksBefore' = tasks
  /\ turnNo' = turnNo + 1
  /\ UNCHANGED <<tasks, callerCtx, focusSeen, codecVars, extraVars>>

(* handler, 60-64: a request that is not a POST *)
RejectMethod ==
  \E msg \in TurnMessages :
    /\ pc = "idle" /\ turnNo < MaxTurns
    /\ Fresh(msg)
    /\ response' = errorResponse("Method not allowed", 405, Undef)
    /\ pc' = "idle"

(* handler, 66-72: no body or no message *)
RejectBody ==
  /\ pc = "idle" /\ turnNo < MaxTurns
  /\ Fresh(<<>>)
  /\ response' = errorResponse("Message is required", 400, Undef)
  /\ pc' = "idle"

(* handler, 74-76: processChat is entered *)
StartTurn ==
  \E msg \in TurnMessages :
    /\ pc = "idle" /\ turnNo < MaxTurns
    /\ Fresh(msg)
    /\ response' = NoResponse
    /\ pc' = "classify"

(* Step 1 *)
Classify ==
  /\ pc = "classify"
  /\ intentResult' = classifyIntent(reqMessage)
  /\ pc' = "resolve"
  /\ UNCHANGED <<reqMessage, reqContext, resolvedCtx, dataCtx, actionResult, prompt,
                 llmResult, llmCalls, parsedResponse, response, tasks, tasksBefore,
                 callerCtx, focusSeen, turnNo, codecVars, extraVars>>

(* Step 2 *)
ResolveContext ==
  /\ pc = "resolve"
  /\ resolvedCtx' = resolveContextReferences(reqMessage, reqContext)
  /\ pc' = "gather"
  /\ UNCHANGED <<reqMessage, reqContext, intentResult, dataCtx, actionResult, prompt,
                 llmResult, llmCalls, parsedResponse, response, tasks, tasksBefore,
                 callerCtx, focusSeen, turnNo, codecVars, extraVars>>

(* Step 3; a rejected lookup ends processChat, and handler answers 500 *)
GatherData ==
  \E failAt \in 0..Len(GatherSwitch(intentResult.intent, intentResult.entities,
                                    resolvedCtx, tasks).reads) :
    LET d == gatherDataForIntent(intentResult.intent, intentResult.entities, reqContext,
                                 resolvedCtx, tasks, failAt)
    IN /\ pc = "gather"
       /\ dataCtx' = d
       /\ IF d.error # Undef
          THEN /\ response' = handlerCatch(d.error)
               /\ pc' = "idle"
          ELSE /\ response' = response
               /\ pc' = "action"
       /\ UNCHANGED <<reqMessage, reqContext, intentResult, resolvedCtx, actionResult, prompt,
                      llmResult, llmCalls, parsedResponse, tasks, tasksBefore,
                      callerCtx, focusSeen, turnNo, codecVars, extraVars>>

(* Step 4 *)
PerformAction ==
  \E rejects \in BOOLEAN :
    LET a == handleActionIntent(intentResult.intent, resolvedCtx, tasks, rejects)
    IN /\ pc = "action"
       /\ rejects => a.calls # <<>>
       /\ tasks' = a.store
       /\ actionResult' = [calls |-> a.calls, tasksUpdated |-> a.tasksUpdated,
                           error |-> a.error, escaped |-> a.escaped]
       /\ IF a.escaped
          THEN /\ response' = handlerCatch(a.error)
               /\ pc' = "idle"
          ELSE /\ response' = response
               /\ pc' = "prompt"
       /\ UNCHANGED <<reqMessage, reqContext, intentResult, resolvedCtx, dataCtx, prompt,
                      llmResult, llmCalls, parsedResponse, tasksBefore,
                      callerCtx, focusSeen, turnNo, codecVars, extraVars>>

(* Step 5 *)
BuildPrompt ==
  /\ pc = "prompt"
  /\ prompt' = buildPromptWithIntent(intentResult.intent, dataCtx.formattedData)
  /\ pc' = "llm"
  /\ UNCHANGED <<reqMessage, reqContext, intentResult, resolvedCtx, dataCtx, actionResult,
                 llmResult, llmCalls, parsedResponse, response, tasks, tasksBefore,
                 callerCtx, focusSeen, turnNo, codecVars, extraVars>>

(* Step 6 with a retry: a failed completion is requested again *)
(* CallLLM with a failed completion putting the task records back *)
CallLLM_Rollback ==
  \E outcome \in LLMOutcomes :
    LET r == callLLM(outcome)
    IN /\ pc = "llm"
       /\ llmResult' = r
       /\ llmCalls' = llmCalls + r.requests
       /\ IF r.error # Undef
          THEN /\ response' = handlerCatch(r.error)
               /\ pc' = "idle"
               /\ tasks' = tasksBefore
          ELSE /\ response' = response
               /\ pc' = "decode"
               /\ tasks' = tasks
       /\ UNCHANGED <<reqMessage, reqContext, intentResult, resolvedCtx, dataCtx,
                      actionResult, prompt, parsedResponse, tasksBefore,
                      callerCtx, focusSeen, turnNo, codecVars, extraVars>>

CallLLM_Retry ==
  \E outcome \in LLMOutcomes :
    LET r == callLLM(outcome)
    IN /\ pc = "llm"
       /\ llmResult' = r
       /\ llmCalls' = llmCalls + r.requests
       /\ response' = response
       /\ pc' = IF r.error # Undef THEN "llm" ELSE "decode"
       /\ UNCHANGED <<reqMessage, reqContext, intentResult, resolvedCtx, dataCtx,
                      actionResult, prompt, parsedResponse, tasks, tasksBefore,
                      callerCtx, focusSeen, turnNo, codecVars, extraVars>>

(* Step 6; a failed completion ends processChat, and handler answers 500 *)
CallLLM ==
  \E outcome \in LLMOutcomes :
    LET r == callLLM(outcome)
    IN /\ pc = "llm"
       /\ llmResult' = r
       /\ llmCalls' = llmCalls + r.requests
       /\ IF r.error # Undef
          THEN /\ response' = handlerCatch(r.error)
               /\ pc' = "idle"
          ELSE /\ response' = response
               /\ pc' = "decode"
       /\ UNCHANGED <<reqMessage, reqContext, intentResult, resolvedCtx, dataCtx,
                      actionResult, prompt, parsedResponse, tasks, tasksBefore,
                      callerCtx, focusSeen, turnNo, codecVars, extraVars>>

(* Step 7 *)
DecodeCards ==
  /\ pc = "decode"
  /\ parsedResponse' = parseContent(llmResult.content)
  /\ pc' = "context"
  /\ UNCHANGED <<reqMessage, reqContext, intentResult, resolvedCtx, dataCtx, actionResult,
                 prompt, llmResult, llmCalls, response, tasks, tasksBefore,
                 callerCtx, focusSeen, turnNo, codecVars, extraVars>>

(* Step 8 and the return: the caller takes the returned context along *)
BuildUpdatedContext ==
  LET updatedContext == buildUpdatedContext(reqContext, intentResult.intent, dataCtx)
  IN /\ pc = "context"
     /\ response' = successResponse(ChatResponse(llmResult.content, parsedResponse.cards,
                                                 updatedContext, actionResult.tasksUpdated))
     /\ callerCtx' = updatedContext
     /\ focusSeen' = focusSeen \cup FocusSet(updatedContext)
     /\ pc' = "idle"
     /\ UNCHANGED <<reqMessage, reqContext, intentResult, resolvedCtx, dataCtx,
                    actionResult, prompt, llmResult, llmCalls, parsedResponse, tasks,
                    tasksBefore, turnNo, codecVars, extraVars>>

Next ==
  \/ RejectMethod \/ RejectBody \/ StartTurn
  \/ Classify \/ ResolveContext \/ GatherData \/ PerformAction
  \/ BuildPrompt \/ CallLLM \/ DecodeCards \/ BuildUpdatedContext

Spec == Init /\ [][Next]_vars

(* The steps of processChat.  An async function that was entered runs on   *)
(* whenever the promise it awaits settles, and every awaited call of a     *)
(* turn settles: the completion request is aborted by a timer, and a       *)
(* Record Store request resolves or rejects.                               *)
TurnStep ==
  \/ Classify \/ ResolveContext \/ GatherData \/ PerformAction
  \/ BuildPrompt \/ CallLLM \/ DecodeCards \/ BuildUpdatedContext

(* Weak fairness of TurnStep, written out.  WF_vars(TurnStep) is           *)
(* []<>~ENABLED <<TurnStep>>_vars \/ []<><<TurnStep>>_vars; a step of a     *)
(* turn is enabled exactly while pc is not "idle" (each step is guarded    *)
(* by its pc value alone), and the steps of Next that change pc from a     *)
(* value other than "idle" are the steps of TurnStep.                      *)
TurnFairness == []<>(pc = "idle") \/ []<><<pc # "idle" /\ pc' # pc>>_vars

(* conversations about the store in which both tasks await review, begun   *)
(* without a context or with one that has every focus                      *)
FairInit ==
  /\ ExtraIdle
  /\ CodecIdle
  /\ TurnIdle
  /\ tasks = ("T1" :> TaskRecord("T1", "needs-review", TRUE, 1))
               @@ ("T2" :> TaskRecord("T2", "needs-review", TRUE, 2))
  /\ tasksBefore = tasks
  /\ callerCtx \in {NoContext, Context("T2", "C001", "P001")}
  /\ focusSeen = FocusSet(callerCtx)
  /\ turnNo = 0

FairSpec == FairInit /\ [][Next]_vars /\ TurnFairness

(***************************************************************************)
(* The classifier and the resolver on their own: a caller classifies any   *)
(* message and resolves it against any context.                            *)
(***************************************************************************)
IntentInit ==
  /\ ExtraIdle
  /\ CodecIdle
  /\ TurnIdle
  /\ tasks = CHOOSE st \in InitStores : TRUE
  /\ tasksBefore = tasks
  /\ callerCtx = NoContext
  /\ focusSeen = {}
  /\ turnNo = 0

(* the contexts a caller passes: none, one without a focus, one with the   *)
(* client focus only, one with every focus                                 *)
IntentContexts ==
  {NoContext, Context(Undef, Undef, Undef), Context(Undef, "C001", Undef),
   Context("T2", "C001", "P001")}

ReceiveMessage ==
  \E msg \in IntentMessages, ctx \in IntentContexts :
    /\ pc = "idle"
    /\ reqMessage' = msg
    /\ reqContext' = ctx
    /\ intentResult' = NoIntent
    /\ resolvedCtx' = NoResolved
    /\ pc' = "classify"
    /\ UNCHANGED <<dataCtx, actionResult, prompt, llmResult, llmCalls, parsedResponse,
                   response, tasks, tasksBefore, callerCtx, focusSeen, turnNo, codecVars, extraVars>>

(* the caller has read the classification and the resolved context *)
ReturnResult ==
  /\ pc = "gather"
  /\ pc' = "idle"
  /\ reqMessage' = <<>>
  /\ reqContext' = NoContext
  /\ intentResult' = NoIntent
  /\ resolvedCtx' = NoResolved
  /\ UNCHANGED <<dataCtx, actionResult, prompt, llmResult, llmCalls, parsedResponse,
                 response, tasks, tasksBefore, callerCtx, focusSeen, turnNo, codecVars, extraVars>>

IntentNext == ReceiveMessage \/ Classify \/ ResolveContext \/ ReturnResult

SpecIntent == IntentInit /\ [][IntentNext]_vars


(***************************************************************************)
(* The codec as a state machine: a caller builds a marker or receives      *)
(* generated text, then decodes it and strips it.                          *)
(***************************************************************************)
CodecInit ==
  /\ ExtraIdle
  /\ CodecIdle
  /\ TurnIdle
  /\ tasks = CHOOSE st \in InitStores : TRUE
  /\ tasksBefore = tasks
  /\ callerCtx = NoContext
  /\ focusSeen = {}
  /\ turnNo = 0

(* a component constructs a marker from a card *)
EncodeCard ==
  \E type \in validTypes, data \in Payloads :
    /\ codecPc = "idle"
    /\ genText' = buildCardMarker(type, data)
    /\ cardIn' = [type |-> type, data |-> data]
    /\ codecPc' = "ready"
    /\ parsed' = NoParse
    /\ stripped' = <<>>
    /\ UNCHANGED <<turnVars, extraVars>>

(* the language model returns some text *)
ReceiveText ==
  \E t \in Texts :
    /\ codecPc = "idle"
    /\ genText' = t
    /\ cardIn' = NoCard
    /\ codecPc' = "ready"
    /\ parsed' = NoParse
    /\ stripped' = <<>>
    /\ UNCHANGED <<turnVars, extraVars>>

DecodeContent ==
  /\ codecPc = "ready"
  /\ parsed' = parseContent(genText)
  /\ codecPc' = "decoded"
  /\ UNCHANGED <<genText, cardIn, stripped, turnVars, extraVars>>

StripContent ==
  /\ codecPc = "decoded"
  /\ stripped' = stripCardMarkers(genText)
  /\ codecPc' = "stripped"
  /\ UNCHANGED <<genText, cardIn, parsed, turnVars, extraVars>>

(* the caller is done with the result *)
CodecReset ==
  /\ codecPc = "stripped"
  /\ genText' = <<>>
  /\ cardIn' = NoCard
  /\ codecPc' = "idle"
  /\ parsed' = NoParse
  /\ stripped' = <<>>
  /\ UNCHANGED <<turnVars, extraVars>>

CodecNext == EncodeCard \/ ReceiveText \/ DecodeContent \/ StripContent \/ CodecReset


SpecCodec == CodecInit /\ [][CodecNext]_vars

(***************************************************************************)
(* Properties of the chat turn.                                            *)
(***************************************************************************)
(* a turn has ended: handler has returned a response *)
TurnEnded == pc = "idle" /\ response # NoResponse

(* processChat returned and handler answered 200 *)
TurnSucceeded == TurnEnded /\ response.success

ActionIntents == {"approve_task", "reject_task", "complete_task"}

(* C1: in a conversation in which the caller feeds each returned context   *)
(* into the next turn, a kind of focus id that was set in some context so  *)
(* far is set in the context the caller holds now, and a turn that         *)
(* succeeds returns a context in which every focus id set in its input is  *)
(* still set.                                                              *)
C1_FocusNeverCleared ==
  /\ \A k \in focusSeen : Truthy(FocusId(callerCtx, k))
  /\ TurnSucceeded =>
       \A k \in FocusKinds :
         Truthy(FocusId(reqContext, k)) => Truthy(FocusId(response.data.context, k))

(* C1 witness: the second turn of a conversation succeeded, found no task  *)
(* of its own, and returned the task focus of its input                    *)
C1_Witness ==
  /\ TurnSucceeded
  /\ turnNo >= 2
  /\ Truthy(reqContext.focused_task_id)
  /\ ~Truthy(dataCtx.focusedTaskId)
  /\ response.data.context.focused_task_id = reqContext.focused_task_id

(* C2: at the end of a turn that entered processChat, a state-changing     *)
(* call was issued if and only if the intent is an action intent and the   *)
(* resolved context has a task id, the call is the one of that intent,     *)
(* there is at most one call, and without a call no task has changed and   *)
(* the turn reports no update.                                             *)
C2_ActionIffIntentAndTask ==
  (TurnEnded /\ intentResult # NoIntent) =>
    /\ (actionResult.calls # <<>>)
         <=> (intentResult.intent \in ActionIntents /\ Truthy(resolvedCtx.task_id))
    /\ Len(actionResult.calls) <= 1
    /\ actionResult.calls # <<>> =>
         actionResult.calls[1] = Call(ActionOf(intentResult.intent), <<resolvedCtx.task_id>>)
    /\ actionResult.calls = <<>> =>
         (tasks = tasksBefore /\ response.data.tasks_updated # "true")

(* C3: when the operation called in step 4 threw, no update is reported,   *)
(* the error does not leave processChat, the turn goes on with the later   *)
(* steps, and when it has ended it either succeeded with the model's reply *)
(* and a context and no tasks_updated, or failed in the completion call.   *)
C3_ActionFailureCaught ==
  actionResult.error # Undef =>
    /\ ~actionResult.tasksUpdated
    /\ ~actionResult.escaped
    /\ pc \in {"prompt", "llm", "decode", "context", "idle"}
    /\ pc = "idle" =>
         \/ /\ response.success
            /\ response.data.content = llmResult.content
            /\ response.data.context.present
            /\ response.data.tasks_updated = Undef
         \/ /\ llmResult.error # Undef
            /\ response.message = llmResult.error

(* C3 witness: approveTask threw because the task is not pending review,   *)
(* and the turn succeeded with the reply and no update                     *)
C3_Witness ==
  /\ TurnSucceeded
  /\ actionResult.error = NotPendingReview
  /\ actionResult.calls # <<>>
  /\ response.data.content = llmResult.content
  /\ response.data.tasks_updated = Undef

(* C4: a turn in which a lookup of step 3 was rejected does not fail: it   *)
(* is not answered with an error.                                          *)
C4_GatherFailureSwallowed ==
  dataCtx.error # Undef => ~(TurnEnded /\ ~response.success)

RECURSIVE AllMatches(_, _)
AllMatches(text, from) ==
  LET m == CARD_PATTERN_exec(text, from) IN
    IF ~m.found THEN <<>> ELSE <<m>> \o AllMatches(text, m.end)

(* the payload of a match: the first balanced {...} of it, or all of it *)
PayloadOf(m) == IF extractJson(m.jsonStr) # <<>> THEN extractJson(m.jsonStr) ELSE m.jsonStr

(* a marker with an unknown type token or a payload that is not JSON *)
IsBadMarker(m) ==
  \/ ~(Len(m.cardType) = 1 /\ m.cardType[1] \in validTypes)
  \/ JSONparse(PayloadOf(m)) = SyntaxError

Decoded == codecPc \in {"decoded", "stripped"}

(* C6: decode(encode(type, payload)) is exactly one card segment with the  *)
(* type and a payload deep-equal to the inputs, for every known type and   *)
(* every object payload (nested values, escaped quotes and newlines,       *)
(* braces and >>> inside strings).                                         *)
C6_RoundTrip ==
  (Decoded /\ cardIn # NoCard) =>
     /\ Len(parsed.segments) = 1
     /\ parsed.segments[1].type = "card"
     /\ parsed.segments[1].card = cardIn

(* C7: decoding never throws; a marker with an unknown type token or a     *)
(* payload that is not JSON yields no card, and the segments and cards     *)
(* before and after it are those of the text before it and of the text     *)
(* after it.                                                               *)
C7_BadMarkerDropped ==
  Decoded =>
    /\ ~parsed.threw
    /\ \A i \in 1..Len(AllMatches(genText, 0)) :
         LET m == AllMatches(genText, 0)[i]
             pre == parseContent(Slice(genText, 0, m.index))
             post == parseContent(Slice(genText, m.end, Len(genText)))
         IN  IsBadMarker(m) =>
               /\ parsed.segments = pre.segments \o post.segments
               /\ parsed.cards = pre.cards \o post.cards

(* a bad marker with text before it and a card after it has been decoded *)
C7_Witness ==
  /\ Decoded
  /\ \E i \in 1..Len(AllMatches(genText, 0)) :
       LET m == AllMatches(genText, 0)[i]
           pre == parseContent(Slice(genText, 0, m.index))
           post == parseContent(Slice(genText, m.end, Len(genText)))
       IN  /\ IsBadMarker(m)
           /\ Len(pre.segments) > 0
           /\ Len(post.cards) > 0

(* the text of a gap between markers: one trimmed text segment, or none *)
GapSegments(text, a, b) ==
  LET t == Trim(Slice(text, a, b)) IN
    IF t = <<>> THEN <<>> ELSE <<[type |-> "text", content |-> t, card |-> NoCard]>>

(* the segments in the order of the text: for each marker the gap before   *)
(* it and, when it decodes, its card; then the gap after the last marker   *)
SegmentsInTextOrder(text) ==
  LET ms == AllMatches(text, 0)
      n == Len(ms)
      gapStart(i) == IF i = 1 THEN 0 ELSE ms[i - 1].end
      part(i) ==
        GapSegments(text, gapStart(i), ms[i].index)
        \o (IF IsBadMarker(ms[i]) THEN <<>>
            ELSE <<[type |-> "card",
                    content |-> Slice(text, ms[i].index, ms[i].end),
                    card |-> [type |-> ms[i].cardType[1],
                              data |-> JSONparse(PayloadOf(ms[i]))]]>>)
  IN  Flatten([i \in 1..n |-> part(i)])
      \o GapSegments(text, IF n = 0 THEN 0 ELSE ms[n].end, Len(text))

(* C8: the segments are the text spans and decoded markers in the order    *)
(* of the generated text, and the cards list is the card segments in that  *)
(* order.                                                                  *)
C8_SegmentsInOrder ==
  Decoded =>
    /\ parsed.segments = SegmentsInTextOrder(genText)
    /\ parsed.cards =
         [i \in 1..Len(SelectSeq(parsed.segments, IsCard)) |->
            SelectSeq(parsed.segments, IsCard)[i].card]

(* a text and two cards of different types have been decoded *)
C8_Witness ==
  /\ Decoded
  /\ Len(parsed.segments) = 3
  /\ parsed.segments[1].type = "text"
  /\ parsed.segments[2].type = "card"
  /\ parsed.segments[3].type = "card"
  /\ Len(parsed.cards) = 2
  /\ parsed.cards[1].type # parsed.cards[2].type

(* C9: the plain text of parseContent never holds three consecutive        *)
(* newlines.                                                               *)
C9_NoTripleNewline ==
  Decoded =>
    \A i \in 1..(Len(parsed.plainText) - 2) :
      ~(parsed.plainText[i] = "nl" /\ parsed.plainText[i + 1] = "nl"
          /\ parsed.plainText[i + 2] = "nl")


(***************************************************************************)
(* Properties of the classifier.                                           *)
(***************************************************************************)
Classified == pc \in {"resolve", "gather"} /\ intentResult # NoIntent

(* the catalog entries with a pattern that matches the message *)
MatchingEntries(msg) ==
  {e \in DOMAIN INTENT_PATTERNS :
     \E p \in DOMAIN INTENT_PATTERNS[e].patterns :
       RegExpTest(INTENT_PATTERNS[e].patterns[p], msg)}

(* C10: when some catalog pattern matches the message, the intent returned *)
(* is that of the earliest catalog entry with a matching pattern.          *)
C10_EarliestEntryWins ==
  Classified =>
    LET hits == MatchingEntries(Trim(reqMessage))
    IN hits # {} => intentResult.intent = INTENT_PATTERNS[MinOf(hits)].intent

(* C10 witness: a classified message that matches patterns of two entries  *)
(* with different intents                                                  *)
C10_Witness ==
  /\ Classified
  /\ \E e1, e2 \in MatchingEntries(Trim(reqMessage)) :
       /\ e1 < e2
       /\ INTENT_PATTERNS[e1].intent # INTENT_PATTERNS[e2].intent
       /\ intentResult.intent = INTENT_PATTERNS[e1].intent

(* the intents of the catalog *)
CatalogIntents == {INTENT_PATTERNS[e].intent : e \in DOMAIN INTENT_PATTERNS}

(* C11: a classified message has exactly one intent, of the catalog or     *)
(* general_question, and a confidence between 0 and 1 (0..10 tenths); the  *)
(* result is general_question with confidence 0.5 exactly when no catalog  *)
(* pattern matches the message, and the confidence is 0.9 otherwise.       *)
C11_ClassifyTotal ==
  Classified =>
    LET hits == MatchingEntries(Trim(reqMessage))
    IN /\ intentResult.intent \in CatalogIntents \cup {"general_question"}
       /\ intentResult.confidence \in 0..10
       /\ (hits = {}) <=> (/\ intentResult.intent = "general_question"
                           /\ intentResult.confidence = ConfidenceDefault)
       /\ hits # {} => intentResult.confidence = ConfidenceMatched

(* C11 witness: a message of words that no catalog pattern matches was     *)
(* classified as general_question with confidence 0.5                      *)
C11_Witness ==
  /\ Classified
  /\ Trim(reqMessage) # <<>>
  /\ MatchingEntries(Trim(reqMessage)) = {}
  /\ intentResult.intent = "general_question"
  /\ intentResult.confidence = ConfidenceDefault

(* classifyIntent and resolveContextReferences have both returned *)
Resolved == pc = "gather" /\ intentResult # NoIntent

(* the message has one of the referring tokens as words of its own *)
HasReferringToken(msg) ==
  \/ \E i \in DOMAIN msg : msg[i] \in {"it", "that", "this"}
  \/ \E i \in 1..(Len(msg) - 1) :
       msg[i] = "the" /\ msg[i + 1] \in {"task", "client", "policy"}

(* C12: without a referring token in the message, or without a prior       *)
(* context, the resolver returns resolved_from 'none' and no id; with a    *)
(* referring token and a prior context that has a focus id, it returns     *)
(* each focus id of the context under its own kind, no other id, and       *)
(* resolved_from 'context'.                                                *)
C12_ResolverCopiesFocus ==
  Resolved =>
    LET ref == HasReferringToken(Words(reqMessage))
    IN /\ (~ref \/ ~reqContext.present) => resolvedCtx = NoResolved
       /\ (ref /\ reqContext.present /\ FocusSet(reqContext) # {}) =>
            /\ resolvedCtx.task_id = reqContext.focused_task_id
            /\ resolvedCtx.client_id = reqContext.focused_client_id
            /\ resolvedCtx.policy_id = reqContext.focused_policy_id
            /\ resolvedCtx.resolved_from = "context"

(* C12 witness: a message with a referring token was resolved against a    *)
(* context with the client focus only, and only the client id came back    *)
C12_Witness ==
  /\ Resolved
  /\ HasReferringToken(Words(reqMessage))
  /\ FocusSet(reqContext) = {"client"}
  /\ resolvedCtx.client_id = reqContext.focused_client_id
  /\ resolvedCtx.task_id = Undef
  /\ resolvedCtx.resolved_from = "context"

(* the labelled part of the formatted data, <<>> when it has none *)
DataPart(formattedData, label) ==
  IF \E i \in DOMAIN formattedData : formattedData[i].label = label
  THEN formattedData[CHOOSE i \in DOMAIN formattedData : formattedData[i].label = label].ids
  ELSE <<>>

(* C13: a turn for "create a compliance check" whose input context has a   *)
(* focused client, once it has gathered its data, has the intent           *)
(* create_compliance_check, a resolved context with that client id and     *)
(* resolved_from 'context', and the data of that client in the prompt.     *)
C13_DocumentRequestUsesFocusedClient ==
  (/\ reqMessage = <<"create", "a", "compliance", "check">>
   /\ Truthy(reqContext.focused_client_id)
   /\ pc \in {"action", "prompt", "llm", "decode", "context"}) =>
    /\ intentResult.intent = "create_compliance_check"
    /\ resolvedCtx.client_id = reqContext.focused_client_id
    /\ resolvedCtx.resolved_from = "context"
    /\ DataPart(dataCtx.formattedData, "Focused Client") = <<reqContext.focused_client_id>>

(* C14: a turn for "Show me Dylan Jackson's info" with no focus in its     *)
(* context that succeeded has the intent show_client_info and the client   *)
(* name Dylan Jackson, has looked the client up by that name, and, the     *)
(* client being in the store, returns a context focused on that client     *)
(* with last_intent show_client_info.                                      *)
C14_PossessiveClientScenario ==
  (/\ TurnSucceeded
   /\ reqMessage = <<"show", "me", "dylan", "jackson's", "info">>
   /\ FocusSet(reqContext) = {}) =>
    /\ intentResult.intent = "show_client_info"
    /\ intentResult.entities.client_name = <<"dylan", "jackson">>
    /\ \E i \in DOMAIN dataCtx.reads :
         dataCtx.reads[i] = Call("getClientByName", <<"dylan", "jackson">>)
    /\ response.data.context.focused_client_id
         = getClientByName(<<"dylan", "jackson">>).client_id
    /\ response.data.context.last_intent = "show_client_info"

(* C15: in a turn with an action intent whose resolved context has no task *)
(* id, no Record Store call is made, neither a read in step 3 nor an       *)
(* operation in step 4, no task changes, and the response of the turn,     *)
(* when it succeeds, reports no update.                                    *)
C15_NoTaskNoStoreCall ==
  (/\ intentResult.intent \in ActionIntents
   /\ pc \notin {"classify", "resolve"}
   /\ ~Truthy(resolvedCtx.task_id)) =>
    /\ dataCtx.reads = <<>>
    /\ actionResult.calls = <<>>
    /\ tasks = tasksBefore
    /\ TurnSucceeded => response.data.tasks_updated = Undef

(* C15 witness: "approve it" without a context ran to a successful         *)
(* response that reports no update                                         *)
C15_Witness ==
  /\ TurnSucceeded
  /\ reqMessage = <<"approve", "it">>
  /\ ~reqContext.present
  /\ intentResult.intent = "approve_task"
  /\ resolvedCtx.task_id = Undef
  /\ response.data.tasks_updated = Undef

(* the focus id of a kind that the data gathering of the turn produced *)
DataFocus(d, kind) ==
  CASE kind = "task" -> d.focusedTaskId
    [] kind = "client" -> d.focusedClientId
    [] kind = "policy" -> d.focusedPolicyId

(* C16: while a turn runs, the context of the request is the one the       *)
(* caller sent; and in the context a turn returns, the focus id of each    *)
(* kind is the one the data gathering of this turn produced when it        *)
(* produced one, and the input's otherwise, and last_intent is the intent  *)
(* classified in this turn.                                                *)
C16_ContextMerge ==
  /\ pc # "idle" => reqContext = callerCtx
  /\ TurnSucceeded =>
       /\ \A k \in FocusKinds :
            FocusId(response.data.context, k)
              = IF Truthy(DataFocus(dataCtx, k)) THEN DataFocus(dataCtx, k)
                ELSE FocusId(reqContext, k)
       /\ response.data.context.last_intent = intentResult.intent

(* C16 witness: a turn whose input had another last_intent replaced the    *)
(* focus of one kind by a new id and kept that of another kind             *)
C16_Witness ==
  /\ TurnSucceeded
  /\ Truthy(reqContext.last_intent)
  /\ reqContext.last_intent # intentResult.intent
  /\ \E k \in FocusKinds :
       /\ Truthy(DataFocus(dataCtx, k))
       /\ Truthy(FocusId(reqContext, k))
       /\ DataFocus(dataCtx, k) # FocusId(reqContext, k)
  /\ \E k \in FocusKinds :
       /\ ~Truthy(DataFocus(dataCtx, k))
       /\ Truthy(FocusId(reqContext, k))

(* the position of a step in processChat; "idle" is before and after *)
StepRank(p) ==
  CASE p = "classify" -> 1
    [] p = "resolve" -> 2
    [] p = "gather" -> 3
    [] p = "action" -> 4
    [] p = "prompt" -> 5
    [] p = "llm" -> 6
    [] p = "decode" -> 7
    [] p = "context" -> 8
    [] OTHER -> 0

(* C17: a turn starts with Classify; each step of a turn is followed by    *)
(* the next step of the order Classify, ResolveContext, GatherData,        *)
(* PerformAction, AssemblePrompt, completion, DecodeCards,                 *)
(* BuildUpdatedContext, or ends the turn with a reported failure; only     *)
(* BuildUpdatedContext ends a turn with a response; and every turn that    *)
(* has started ends.                                                       *)
C17_StepsInOrderAndTerminate ==
  /\ [][/\ pc = "idle" => pc' \in {"idle", "classify"}
        /\ pc # "idle" =>
             \/ StepRank(pc') = StepRank(pc) + 1
             \/ pc' = "idle" /\ ~response'.success /\ response'.statusCode = 500
             \/ pc = "context" /\ pc' = "idle" /\ response'.success]_vars
  /\ [](pc # "idle" => <>(pc = "idle" /\ response # NoResponse))

(* C17 witness: a turn that went through every step and performed an       *)
(* action has ended with a response                                        *)
C17_Witness ==
  /\ TurnSucceeded
  /\ actionResult.calls # <<>>
  /\ prompt # NoPrompt
  /\ llmCalls = 1

(* whether a task record is in a state that permits the operation *)
Permits(task, op) ==
  CASE op = "approveTask" -> task.ai_completed /\ task.status = "needs-review"
    [] op = "rejectTask" -> task.ai_completed /\ task.status = "needs-review"
    [] op = "completeTask" -> isValidStatusTransition(task.status, "completed")

(* C18: when the operation of step 4 was called on a task whose record     *)
(* did not permit it, the operation failed and no task record changed.     *)
C18_InvalidTransitionFails ==
  \A i \in DOMAIN actionResult.calls :
    LET op == actionResult.calls[i].op
        taskId == actionResult.calls[i].arg[1]
    IN (taskId \in DOMAIN tasksBefore /\ ~Permits(tasksBefore[taskId], op)) =>
         /\ actionResult.error # Undef
         /\ tasks = tasksBefore

(* the step 3 of the turn has returned its data *)
DataGathered == pc \in {"action", "prompt", "llm", "decode", "context"}

(* C19: in a turn with a client-lookup intent in which the name in the     *)
(* message finds a client and the resolved context names another one, the  *)
(* client found by name is the one whose data is fetched and who is        *)
(* focused; and an explicit id in the entities, when there is one, is the  *)
(* id that is fetched and focused.                                         *)
C19_LookupPriority ==
  DataGathered =>
    LET entities == intentResult.entities
        byName == IF entities.client_name # <<>>
                  THEN getClientByName(entities.client_name).client_id ELSE Undef
    IN /\ (/\ intentResult.intent \in {"show_client_info", "show_client_policies"}
           /\ Truthy(byName) /\ Truthy(resolvedCtx.client_id)
           /\ byName # resolvedCtx.client_id) =>
            /\ dataCtx.focusedClientId = byName
            /\ DataPart(dataCtx.formattedData, "Policies")
                 = PolicyIdsOf(getPoliciesForClient(byName))
       /\ (intentResult.intent = "show_task_status" /\ Truthy(entities.task_id)) =>
            dataCtx.focusedTaskId = entities.task_id
       /\ (intentResult.intent = "show_policy_info" /\ Truthy(entities.policy_id)) =>
            dataCtx.focusedPolicyId = entities.policy_id

ListIntents ==
  {"show_todays_tasks", "show_all_tasks", "show_pending_reviews", "show_client_list",
   "show_expiring_policies"}

(* C20: a turn with a list intent that succeeded has made exactly one      *)
(* Record Store query, the one of its intent whatever the message and the  *)
(* context, and returns the focus ids of its input context.                *)
C20_ListIntentsKeepFocus ==
  (TurnSucceeded /\ intentResult.intent \in ListIntents) =>
    /\ Len(dataCtx.reads) = 1
    /\ dataCtx.reads[1].arg = <<>>
    /\ \A k \in FocusKinds :
         FocusId(response.data.context, k) = FocusId(reqContext, k)

(* C21: in a turn with a client-lookup intent and a client name extracted  *)
(* from the message, once the data is gathered: when a client of that name *)
(* exists, it is the new client focus; when none exists, the turn has no   *)
(* new focus of any kind and its data bundle is empty.                     *)
C21_NameLookupSetsFocus ==
  (/\ DataGathered
   /\ intentResult.intent \in {"show_client_info", "show_client_policies"}
   /\ intentResult.entities.client_name # <<>>) =>
    LET client == getClientByName(intentResult.entities.client_name)
    IN /\ client # NoClient => dataCtx.focusedClientId = client.client_id
       /\ client = NoClient =>
            /\ \A k \in FocusKinds : DataFocus(dataCtx, k) = Undef
            /\ dataCtx.formattedData = <<>>

(* the time keywords of a message, as words of their own *)
HasKeyword(msg, keywords) == \E i \in DOMAIN msg : msg[i] \in keywords

(* C22: the time_range of a classified message is 'overdue' when the       *)
(* message has an overdue keyword, else 'week' when it has a week keyword, *)
(* else 'today' when it has the today keyword, else it is not set.         *)
C22_TimeRangePriority ==
  Classified =>
    LET msg == Trim(reqMessage)
    IN intentResult.entities.time_range
         = IF HasKeyword(msg, {"overdue", "late"}) THEN "overdue"
           ELSE IF HasKeyword(msg, {"week"}) THEN "week"
           ELSE IF HasKeyword(msg, {"today"}) THEN "today"
           ELSE Undef

(***************************************************************************)
(* The decoder and its shared pattern (prompts.ts).  CARD_PATTERN is one   *)
(* module-level object with the global flag, so its lastIndex outlives     *)
(* every call.  The decode functions contain no await: a call runs from    *)
(* its first statement to its return before any other code of the process  *)
(* runs, so callers interleave call by call.                               *)
(***************************************************************************)

(* `CARD_PATTERN.lastIndex = 0`, the statement parseContent and            *)
(* hasCardMarkers begin with                                               *)
ResetLastIndex_Skipped(lastIndexNow) == lastIndexNow

ResetLastIndex(lastIndexNow) == 0

CallOutcome(result, newLastIndex) == [result |-> result, lastIndex |-> newLastIndex]

(* the ParsedResponse parseContent builds from the segments and cards of  *)
(* its loop                                                                *)
ParsedOf(r) ==
  [segments |-> r.segments,
   cards |-> r.cards,
   plainText |-> Trim(JoinWith([i \in 1..Len(SelectSeq(r.segments, IsText)) |->
                                  SelectSeq(r.segments, IsText)[i].content],
                               <<"nl", "nl">>)),
   threw |-> r.threw]

(* the rest of parseContent after its first match and the card parsed from *)
(* it: the text before the match counts from the local lastIndex, 0        *)
AfterFirstMatch(content, match, card) ==
  IF card = Thrown
  THEN [segments |-> <<>>, cards |-> <<>>, threw |-> TRUE]
  ELSE parseContentLoop(content, match.end,
         TextBefore(content, 0, match.index)
         \o (IF card # NoCard
             THEN <<CardSegment(Slice(content, match.index, match.end), card)>>
             ELSE <<>>),
         IF card # NoCard THEN <<card>> ELSE <<>>)

(* the loop of parseContent, given the result of its first exec *)
FromFirstExec(content, match) ==
  IF ~match.found
  THEN [segments |-> TextBefore(content, 0, Len(content)), cards |-> <<>>, threw |-> FALSE]
  ELSE CHOOSE r \in {AfterFirstMatch(content, match, card) :
                       card \in {parseCardMarker(match.cardType, match.jsonStr)}} : TRUE

(* parseContent entered with CARD_PATTERN.lastIndex = lastIndexNow: the     *)
(* first exec searches from the pattern's lastIndex while the local        *)
(* lastIndex is 0; from the first match on the two agree.  The exec that   *)
(* finds nothing ends the loop and sets the pattern's lastIndex to 0.      *)
(* (Each value is computed once and bound: match, then r.)                 *)
parseContentCall(content, lastIndexNow) ==
  CHOOSE out \in
    {CallOutcome(ParsedOf(r), 0) :
       r \in {FromFirstExec(content, match) :
                match \in {CARD_PATTERN_exec(content, ResetLastIndex(lastIndexNow))}}} : TRUE

(* hasCardMarkers: test leaves lastIndex at the end of the match it found *)
hasCardMarkersCall(content, lastIndexNow) ==
  LET match == CARD_PATTERN_exec(content, ResetLastIndex(lastIndexNow))
  IN CallOutcome(match.found, IF match.found THEN match.end ELSE 0)

(* extractCards *)
extractCardsCall(content, lastIndexNow) ==
  CHOOSE out \in {CallOutcome(p.result.cards, p.lastIndex) :
                    p \in {parseContentCall(content, lastIndexNow)}} : TRUE

(* stripCardMarkers: String.prototype.replace with a global pattern starts *)
(* from lastIndex 0 and leaves it 0                                        *)
stripCardMarkersCall(content, lastIndexNow) == CallOutcome(stripCardMarkers(content), 0)

(* "<<<CARD:confirmation:{...}>>> A <<<CARD:task-list:{...}>>>" *)
TwoCardsText == GoodMarker \o <<"a">> \o NestedMarker

(* the generated texts of the decoding turns *)
DecodeTexts ==
  {<<>>, <<"a">>, GoodMarker, <<"a">> \o GoodMarker, TwoCardsText,
   BadJsonMarker \o GoodMarker, OpenMarker, ScenarioText}

PatternInit ==
  /\ CodecIdle
  /\ TurnIdle
  /\ tasks = CHOOSE st \in InitStores : TRUE
  /\ tasksBefore = tasks
  /\ callerCtx = NoContext
  /\ focusSeen = {}
  /\ turnNo = 0
  /\ ExtraIdle

notPatternVars == <<codecVars, turnVars, opsVars, procs, batch>>

(* a turn has received its generated text *)
BeginDecode ==
  \E t \in DecodeTurns, text \in DecodeTexts :
    /\ ~inFlight[t].active
    /\ inFlight' = [inFlight EXCEPT ![t] = [active |-> TRUE, text |-> text]]
    /\ UNCHANGED <<CARD_PATTERN_lastIndex, lastCall, notPatternVars>>

(* the call fn of a decoding turn, run on the shared pattern *)
DecodeCall(t, fn, d) ==
  /\ inFlight[t].active
  /\ lastCall' = [fn |-> fn, content |-> inFlight[t].text,
                  dirty |-> CARD_PATTERN_lastIndex # 0, result |-> d.result]
  /\ CARD_PATTERN_lastIndex' = d.lastIndex
  /\ UNCHANGED <<inFlight, notPatternVars>>

CallParseContent ==
  \E t \in DecodeTurns :
    \E d \in {parseContentCall(inFlight[t].text, CARD_PATTERN_lastIndex)} :
      DecodeCall(t, "parseContent", d)

CallHasCardMarkers ==
  \E t \in DecodeTurns :
    \E d \in {hasCardMarkersCall(inFlight[t].text, CARD_PATTERN_lastIndex)} :
      DecodeCall(t, "hasCardMarkers", d)

CallExtractCards ==
  \E t \in DecodeTurns :
    \E d \in {extractCardsCall(inFlight[t].text, CARD_PATTERN_lastIndex)} :
      DecodeCall(t, "extractCards", d)

CallStripCardMarkers ==
  \E t \in DecodeTurns :
    \E d \in {stripCardMarkersCall(inFlight[t].text, CARD_PATTERN_lastIndex)} :
      DecodeCall(t, "stripCardMarkers", d)

(* the turn has built its response *)
EndDecode ==
  \E t \in DecodeTurns :
    /\ inFlight[t].active
    /\ inFlight' = [inFlight EXCEPT ![t] = NoFlight]
    /\ UNCHANGED <<CARD_PATTERN_lastIndex, lastCall, notPatternVars>>

PatternNext ==
  \/ BeginDecode
  \/ CallParseContent
  \/ CallHasCardMarkers
  \/ CallExtractCards
  \/ CallStripCardMarkers
  \/ EndDecode

SpecPattern == PatternInit /\ [][PatternNext]_vars

(* C23: the result of every decode call (parseContent, hasCardMarkers,     *)
(* extractCards, stripCardMarkers) is the result the same call gives on a  *)
(* pattern nobody has used, whatever calls of this or other decoding turns *)
(* ran before it on the shared CARD_PATTERN                                *)
C23_DecodeIndependentOfSharedPattern ==
  lastCall.fn # Undef =>
    lastCall.result =
      CASE lastCall.fn = "parseContent" -> parseContent(lastCall.content)
        [] lastCall.fn = "hasCardMarkers" -> CARD_PATTERN_exec(lastCall.content, 0).found
        [] lastCall.fn = "extractCards" -> parseContent(lastCall.content).cards
        [] lastCall.fn = "stripCardMarkers" -> stripCardMarkers(lastCall.content)

(* C23 witness: with two turns decoding different texts, parseContent was  *)
(* entered with a lastIndex another call had left behind and still found   *)
(* the card at the start of its text                                       *)
C23_Witness ==
  /\ lastCall.fn = "parseContent"
  /\ lastCall.dirty
  /\ lastCall.content = GoodMarker
  /\ Len(lastCall.result.cards) = 1
  /\ \A t \in DecodeTurns : inFlight[t].active
  /\ \E t, u \in DecodeTurns : inFlight[t].text # inFlight[u].text

(* C24: a turn that reports tasks_updated true changed a task record of    *)
(* the Record Store during the turn                                        *)
C24_UpdateReportedOnlyIfApplied ==
  (TurnSucceeded /\ response.data.tasks_updated = "true") => tasks # tasksBefore

(***************************************************************************)
(* Two review operations on one task at the same time (tasks.ts).  The     *)
(* Record Store serves each request of an operation on its own: between    *)
(* the await of a getItem or putItem and the continuation of the operation *)
(* the other operation may run.  putItem sends a PutCommand without a      *)
(* condition, so it overwrites whatever the table holds.                   *)
(***************************************************************************)

(* the task both operations are called with *)
RaceTask == "T1"

ReviewOps == {"approveTask", "rejectTask"}

turnVarsButTasks ==
  <<pc, reqMessage, reqContext, intentResult, resolvedCtx, dataCtx, actionResult, prompt,
    llmResult, llmCalls, parsedResponse, response, tasksBefore, callerCtx, focusSeen, turnNo>>

notRaceVars == <<codecVars, turnVarsButTasks, patternVars, opsVars, batch>>

RaceInit ==
  /\ CodecIdle
  /\ TurnIdle
  /\ tasks \in InitStores
  /\ tasksBefore = tasks
  /\ callerCtx = NoContext
  /\ focusSeen = {}
  /\ turnNo = 0
  /\ ExtraIdle

(* a chat turn or the REST endpoint calls approveTask or rejectTask *)
StartOp ==
  \E p \in Procs, op \in ReviewOps :
    /\ procs[p].pc = "idle"
    /\ procs' = [procs EXCEPT ![p] = [op |-> op, pc |-> "read", task |-> NoTask,
                                      error |-> Undef]]
    /\ UNCHANGED <<tasks, notRaceVars>>

(* `const task = await getTaskById(taskId)` *)
ReadTask ==
  \E p \in Procs :
    /\ procs[p].pc = "read"
    /\ procs' = [procs EXCEPT ![p].task = getTaskById(tasks, RaceTask), ![p].pc = "check"]
    /\ UNCHANGED <<tasks, notRaceVars>>

(* the null return and the needs-review check on the record that was read *)
CheckReview ==
  \E p \in Procs :
    LET task == procs[p].task IN
      /\ procs[p].pc = "check"
      /\ procs' =
           IF task = NoTask THEN [procs EXCEPT ![p].pc = "done"]
           ELSE IF ~task.ai_completed \/ task.status # "needs-review"
           THEN [procs EXCEPT ![p].pc = "done", ![p].task = NoTask,
                              ![p].error = NotPendingReview]
           ELSE [procs EXCEPT ![p].pc = "reread"]
      /\ UNCHANGED <<tasks, notRaceVars>>

(* the second getTaskById: in updateTask for approveTask, in rejectTask     *)
(* itself for rejectTask                                                   *)
ReadAgain ==
  \E p \in Procs :
    LET existing == getTaskById(tasks, RaceTask) IN
      /\ procs[p].pc = "reread"
      /\ procs' = [procs EXCEPT ![p].task = existing,
                                ![p].pc = IF existing = NoTask THEN "done" ELSE "write"]
      /\ UNCHANGED <<tasks, notRaceVars>>

(* the record an operation builds from the one it read the second time *)
RecordToPut(op, existing) ==
  IF op = "approveTask"
  THEN updateTask([t \in {RaceTask} |-> existing], RaceTask,
                  [status |-> "completed", completed_at |-> getCurrentTimestamp]).task
  ELSE [existing EXCEPT !.ai_completion_data = Undef, !.ai_completed = FALSE,
                        !.status = "pending", !.updated_at = getCurrentTimestamp]

(* `await putItem(record)` *)
WriteRecord ==
  \E p \in Procs :
    LET record == RecordToPut(procs[p].op, procs[p].task) IN
      /\ procs[p].pc = "write"
      /\ tasks' = [tasks EXCEPT ![RaceTask] = record]
      /\ procs' = [procs EXCEPT ![p].task = record, ![p].pc = "done"]
      /\ UNCHANGED notRaceVars

RaceNext == StartOp \/ ReadTask \/ CheckReview \/ ReadAgain \/ WriteRecord

SpecRace == RaceInit /\ [][RaceNext]_vars

(* the operation returned a task: it neither threw nor returned null *)
Succeeded(p) == procs[p].pc = "done" /\ procs[p].error = Undef /\ procs[p].task # NoTask

AwaitingReview(task) == task # NoTask /\ task.ai_completed /\ task.status = "needs-review"

(* C25: of two approve/reject operations run at the same time on a task    *)
(* awaiting review at most one succeeds, and once both have ended the      *)
(* record is the one the successful operation wrote                        *)
C25_AtMostOneReviewSucceeds ==
  AwaitingReview(getTaskById(tasksBefore, RaceTask)) =>
    /\ Cardinality({p \in Procs : Succeeded(p)}) <= 1
    /\ (\A p \in Procs : procs[p].pc = "done") =>
         \A p \in Procs : Succeeded(p) => tasks[RaceTask] = procs[p].task

(* the completion request of the turn failed and the turn has ended *)
CompletionFailed == TurnEnded /\ llmResult.error # Undef

(* C26: no completion request is sent before step 4 has run; and when the  *)
(* completion call fails after step 4 changed a task, the task records     *)
(* are still the ones the operation left, the response is a failure, and   *)
(* it carries neither tasks_updated nor a context                          *)
C26_MutationBeforeCompletionNotUndone ==
  /\ pc \in {"classify", "resolve", "gather", "action"} => llmCalls = 0
  /\ (CompletionFailed /\ actionResult.tasksUpdated) =>
       /\ tasks = CallAction(tasksBefore, ActionOf(intentResult.intent),
                             resolvedCtx.task_id, FALSE).store
       /\ ~response.success
       /\ response.statusCode = 500
       /\ response.data.tasks_updated = Undef
       /\ ~response.data.context.present

(* C26 witness: "approve it" completed task T1 and then the completion     *)
(* call failed: the turn is answered with a failure and T1 stays completed *)
C26_Witness ==
  /\ CompletionFailed
  /\ intentResult.intent = "approve_task"
  /\ resolvedCtx.task_id = "T1"
  /\ tasksBefore["T1"].status = "needs-review"
  /\ tasks["T1"].status = "completed"
  /\ ~response.success

(***************************************************************************)
(* Task operations called one after another (tasks.ts), by the REST        *)
(* handlers of handlers/tasks.ts or by chat turns.  Each call runs to its  *)
(* end before the next one starts.                                         *)
(***************************************************************************)

(* the task operations a run may make *)
MaxOps == 3

TaskStatuses == {"pending", "in-progress", "completed", "needs-review"}

notOpsVars == <<codecVars, turnVarsButTasks, patternVars, procs, batch>>

OpsInit ==
  /\ CodecIdle
  /\ TurnIdle
  /\ tasks \in InitStores
  /\ tasksBefore = tasks
  /\ callerCtx = NoContext
  /\ focusSeen = {}
  /\ turnNo = 0
  /\ ExtraIdle

(* the operation op on taskId came to the store result r *)
RunOp(op, taskId, r) ==
  /\ opCount < MaxOps
  /\ tasks' = r.store
  /\ lastOp' = [op |-> op, taskId |-> taskId, before |-> getTaskById(tasks, taskId),
                wasDecided |-> decided[taskId] > 0, task |-> r.task, error |-> r.error]
  /\ opCount' = opCount + 1
  /\ decided' = IF op \in ReviewOps /\ r.error = Undef /\ r.task # NoTask
                THEN [decided EXCEPT ![taskId] = @ + 1]
                ELSE decided
  /\ UNCHANGED notOpsVars

CallApproveTask ==
  \E taskId \in OpTaskIds : RunOp("approveTask", taskId, approveTask(tasks, taskId))

CallRejectTask ==
  \E taskId \in OpTaskIds : RunOp("rejectTask", taskId, rejectTask(tasks, taskId))

CallCompleteTask ==
  \E taskId \in OpTaskIds : RunOp("completeTask", taskId, completeTask(tasks, taskId))

(* PATCH /tasks/{id}: handleUpdateTask passes the parsed body to updateTask *)
CallUpdateTask ==
  \E taskId \in OpTaskIds, status \in TaskStatuses :
    RunOp("updateTask", taskId, updateTask(tasks, taskId, [status |-> status]))

ReviewNext == CallApproveTask \/ CallRejectTask

(* any sequence of approveTask and rejectTask calls *)
SpecReview == OpsInit /\ [][ReviewNext]_vars

OpsNext == CallApproveTask \/ CallRejectTask \/ CallCompleteTask \/ CallUpdateTask

(* any sequence of the four operations *)
SpecOps == OpsInit /\ [][OpsNext]_vars

(* the latest operation returned a task *)
OpSucceeded == lastOp.op # Undef /\ lastOp.error = Undef /\ lastOp.task # NoTask

(* C27: in any sequence of approveTask and rejectTask calls, a successful  *)
(* approveTask leaves the task completed with completed_at set, a          *)
(* successful rejectTask leaves it pending with ai_completed false and no  *)
(* AI completion data, every call on a task that an earlier call decided   *)
(* fails with 'Task is not pending AI review' and leaves the record as it  *)
(* was, and so no task is decided more than once                           *)
C27_ReviewDecidedAtMostOnce ==
  /\ \A id \in OpTaskIds : decided[id] <= 1
  /\ (OpSucceeded /\ lastOp.op = "approveTask") =>
       /\ tasks[lastOp.taskId] = lastOp.task
       /\ lastOp.task.status = "completed"
       /\ lastOp.task.completed_at # Undef
  /\ (OpSucceeded /\ lastOp.op = "rejectTask") =>
       /\ tasks[lastOp.taskId] = lastOp.task
       /\ lastOp.task.status = "pending"
       /\ ~lastOp.task.ai_completed
       /\ lastOp.task.ai_completion_data = Undef
  /\ (lastOp.op \in ReviewOps /\ lastOp.wasDecided) =>
       /\ lastOp.error = NotPendingReview
       /\ tasks[lastOp.taskId] = lastOp.before

(* C27 witness: T1 was rejected, and the approveTask that followed failed  *)
(* and left it pending                                                     *)
C27_Witness ==
  /\ lastOp.op = "approveTask"
  /\ lastOp.taskId = "T1"
  /\ lastOp.wasDecided
  /\ lastOp.error = NotPendingReview
  /\ tasks["T1"].status = "pending"
  /\ ~tasks["T1"].ai_completed

(* C28: every operation that changed the status of a task made a           *)
(* transition that isValidStatusTransition allows                          *)
C28_StatusChangesAreValidTransitions ==
  (OpSucceeded /\ lastOp.task.status # lastOp.before.status) =>
    isValidStatusTransition(lastOp.before.status, lastOp.task.status)

(* C29: at every step of a turn each id of the ResolvedContext is the      *)
(* focus id of its own kind in the context the caller sent, every          *)
(* state-changing call of the turn has the caller's focused_task_id as its *)
(* argument, and no other task record has changed during the turn          *)
C29_ResolvedIdsAreCallerFocus ==
  /\ Truthy(resolvedCtx.task_id) =>
       reqContext.present /\ resolvedCtx.task_id = reqContext.focused_task_id
  /\ Truthy(resolvedCtx.client_id) =>
       reqContext.present /\ resolvedCtx.client_id = reqContext.focused_client_id
  /\ Truthy(resolvedCtx.policy_id) =>
       reqContext.present /\ resolvedCtx.policy_id = reqContext.focused_policy_id
  /\ \A i \in DOMAIN actionResult.calls :
       actionResult.calls[i].arg = <<reqContext.focused_task_id>>
  /\ \A id \in DOMAIN tasks :
       tasks[id] # tasksBefore[id] => id = reqContext.focused_task_id

(* C29 witness: with the context T2 / C001 / P001, "approve it" resolved   *)
(* all three ids and approved T2 and nothing else                          *)
C29_Witness ==
  /\ TurnSucceeded
  /\ intentResult.intent = "approve_task"
  /\ reqContext.focused_task_id = "T2"
  /\ resolvedCtx.client_id = "C001"
  /\ resolvedCtx.policy_id = "P001"
  /\ actionResult.calls = <<Call("approveTask", <<"T2">>)>>
  /\ tasks["T2"].status = "completed"
  /\ tasks["T1"] = tasksBefore["T1"]

(***************************************************************************)
(* The seeder's batch write (batchWriteWithRetry).  The items of a batch   *)
(* are numbered; the store answers a batch-write request with the items it *)
(* did not process, any subset of the items of the request, or the request *)
(* fails and the rejection leaves the function.                            *)
(***************************************************************************)

(* the largest batch *)
MaxBatchItems == 3

(* the largest maxRetries a caller passes; seedEntity uses the default, 3 *)
MaxRetriesArg == 3

BatchItems == 1..MaxBatchItems

notBatchVars == <<codecVars, turnVars, patternVars, opsVars, procs>>

BatchInit ==
  /\ CodecIdle
  /\ TurnIdle
  /\ tasks = CHOOSE st \in InitStores : TRUE
  /\ tasksBefore = tasks
  /\ callerCtx = NoContext
  /\ focusSeen = {}
  /\ turnNo = 0
  /\ ExtraIdle

(* `remainingItems.length > 0 && retryCount < maxRetries` *)
batchLoopCondition(b) == b.remainingItems # {} /\ b.retryCount < b.maxRetries

(* one pass of the loop body, the store leaving unprocessed: every item    *)
(* counted as written, whatever the store left                             *)
batchLoopBody_CountsAll(b, unprocessed) ==
  IF unprocessed = {}
  THEN [b EXCEPT !.successCount = @ + Cardinality(b.remainingItems),
                 !.remainingItems = {},
                 !.requests = @ + 1]
  ELSE [b EXCEPT !.successCount = @ + Cardinality(b.remainingItems),
                 !.remainingItems = unprocessed,
                 !.retryCount = @ + 1,
                 !.requests = @ + 1]

(* one pass of the loop body, the store leaving unprocessed *)
batchLoopBody(b, unprocessed) ==
  IF unprocessed = {}
  THEN [b EXCEPT !.successCount = @ + Cardinality(b.remainingItems),
                 !.remainingItems = {},
                 !.requests = @ + 1]
  ELSE [b EXCEPT !.successCount =
                   @ + Cardinality(b.remainingItems) - Cardinality(unprocessed),
                 !.remainingItems = unprocessed,
                 !.retryCount = @ + 1,
                 !.requests = @ + 1]

(* batchWriteWithRetry(items, maxRetries) is called *)
BatchCall ==
  \E items \in SUBSET BatchItems, maxRetries \in 0..MaxRetriesArg :
    /\ batch.pc = "idle"
    /\ batch' = [NoBatch EXCEPT !.pc = "loop", !.items = items, !.maxRetries = maxRetries,
                                !.remainingItems = items]
    /\ UNCHANGED notBatchVars

(* one batch-write request and the store's answer to it *)
BatchRequest ==
  \E unprocessed \in SUBSET batch.remainingItems :
    /\ batch.pc = "loop"
    /\ batchLoopCondition(batch)
    /\ batch' = batchLoopBody(batch, unprocessed)
    /\ UNCHANGED notBatchVars

(* docClient.send rejects: the rejection leaves batchWriteWithRetry *)
BatchRequestFails ==
  /\ batch.pc = "loop"
  /\ batchLoopCondition(batch)
  /\ batch' = [batch EXCEPT !.requests = @ + 1, !.pc = "threw"]
  /\ UNCHANGED notBatchVars

(* the loop has ended: `return {success, failed}` *)
BatchReturn ==
  /\ batch.pc = "loop"
  /\ ~batchLoopCondition(batch)
  /\ batch' = [batch EXCEPT !.pc = "returned", !.success = batch.successCount,
                            !.failed = Cardinality(batch.remainingItems)]
  /\ UNCHANGED notBatchVars

(* seedEntity goes on to its next batch *)
BatchDone ==
  /\ batch.pc \in {"returned", "threw"}
  /\ batch' = NoBatch
  /\ UNCHANGED notBatchVars

BatchStep == BatchRequest \/ BatchRequestFails \/ BatchReturn

BatchNext == BatchCall \/ BatchStep \/ BatchDone

(* every request is answered or fails, and the function then goes on *)
SpecBatch == BatchInit /\ [][BatchNext]_vars /\ WF_vars(BatchStep)

(* C30: batchWriteWithRetry never sends more than maxRetries requests,     *)
(* every call of it ends, and a call that returns has success + failed     *)
(* equal to the number of items passed in, with failed the number of items *)
(* the last answer of the store left unprocessed                           *)
C30_BatchWriteTerminatesAndAccounts ==
  /\ [](batch.requests <= batch.maxRetries)
  /\ [](batch.pc = "returned" =>
          /\ batch.success + batch.failed = Cardinality(batch.items)
          /\ batch.failed = Cardinality(batch.remainingItems))
  /\ [](batch.pc = "loop" => <>(batch.pc \in {"returned", "threw"}))

(* C30 witness: three items, the store left some unprocessed on each of    *)
(* the maxRetries = 3 requests, and the call returned one item written and *)
(* two failed                                                              *)
C30_Witness ==
  /\ batch.pc = "returned"
  /\ Cardinality(batch.items) = 3
  /\ batch.maxRetries = 3
  /\ batch.requests = 3
  /\ batch.success = 1
  /\ batch.failed = 2

=============================================================================
